---- MODULE Spec2Model ----
(***************************************************************************)
(* Resource Controller V2 client binding: the model classes' from_dict /   *)
(* to_dict / __eq__ and the ResourceControllerV2 service operations of     *)
(* ibm_platform_services/resource_controller_v2.py.                        *)
(***************************************************************************)
EXTENDS Integers, Sequences, FiniteSets, TLC

(***************************************************************************)
(* Bounds of the exploration.                                              *)
(***************************************************************************)
\* longest resources / plan_history sequence that is decoded or encoded
MaxLen == 2
\* clock readings (hours) that timestamps are drawn from: 0..MaxHour
MaxHour == 1

(***************************************************************************)
(* Python and JSON values.  Every value carries a tag k, so that values of *)
(* different Python types are told apart before they are compared.         *)
(***************************************************************************)
\* Python None / JSON null
None == [k |-> "null"]

\* an opaque scalar (str, bool, int, or a list of str such as tags), named
\* after the key or parameter it was given for and numbered by the list
\* entry it sits in; the code only ever tests it against None, and truthy
\* records bool(value)
Tok(name, i, truthy) == [k |-> "tok", v |-> name, i |-> i, truthy |-> truthy]

\* an int whose value matters, such as rows_count
Num(n) == [k |-> "int", v |-> n]

\* a str in ISO-8601 date-time form: clock reading t and the zone suffix
\* as spelled ("Z", "+00:00", "+01:00", or "" when there is none)
TStr(t, zone) == [k |-> "tstr", t |-> t, zone |-> zone]

\* a datetime.datetime: clock reading, tz-aware or naive, utc offset
DT(t, aware, off) == [k |-> "dt", t |-> t, aware |-> aware, off |-> off]

\* a dict nested inside another value, and a list
Map(f) == [k |-> "map", v |-> f]
List(s) == [k |-> "seq", v |-> s]

\* an instance of a model class with its __dict__
Obj(cls, attrs) == [k |-> "obj", cls |-> cls, attrs |-> attrs]

\* a reference to a dict that lives in the store: the same dict object can
\* be held by several values
Ref(r) == [k |-> "ref", r |-> r]

IsNone(x) == x.k = "null"

EmptyDict == [n \in {} |-> None]

\* outcome of a call: a returned value or a raised exception
Ok(v) == [ok |-> TRUE, val |-> v]
Raise(exc, kind, field, cls) ==
    [ok |-> FALSE, err |-> [exc |-> exc, kind |-> kind, field |-> field, cls |-> cls]]

\* no outcome yet
Pending == Raise("", "pending", "", "")

Min(S) == CHOOSE x \in S : \A y \in S : x <= y

(***************************************************************************)
(* Timestamp conversion (ibm_cloud_sdk_core.utils).                        *)
(***************************************************************************)
Zones == {"Z", "+00:00", "+01:00", ""}

OffsetOf(zone) == IF zone = "+01:00" THEN 1 ELSE 0

\* parse: a date-time string gives a datetime that keeps the clock reading
\* and the offset; any other str is malformed; a non-str is a type error
string_to_datetime(x) ==
    IF x.k = "tstr" THEN Ok(DT(x.t, x.zone # "", OffsetOf(x.zone)))
    ELSE IF x.k = "tok" THEN Raise("ValueError", "timestamp", "", "")
    ELSE Raise("TypeError", "timestamp", "", "")

\* format: isoformat() with the utc offset spelled "Z"
datetime_to_string(d) ==
    TStr(d.t, IF ~d.aware THEN "" ELSE IF d.off = 0 THEN "Z" ELSE "+01:00")

(***************************************************************************)
(* Model classes: the declared properties of each class, in the order in   *)
(* which from_dict and to_dict walk them.                                  *)
(***************************************************************************)
F(name, kind, ref, required) ==
    [name |-> name, kind |-> kind, ref |-> ref, required |-> required]

Credentials_fields ==
    << F("apikey", "plain", "", FALSE),
       F("iam_apikey_description", "plain", "", FALSE),
       F("iam_apikey_name", "plain", "", FALSE),
       F("iam_role_crn", "plain", "", FALSE),
       F("iam_serviceid_crn", "plain", "", FALSE) >>

PlanHistoryItem_fields ==
    << F("resource_plan_id", "plain", "", TRUE),
       F("start_date", "datetime", "", TRUE) >>

Reclamation_fields ==
    << F("id", "plain", "", FALSE),
       F("entity_id", "plain", "", FALSE),
       F("entity_type_id", "plain", "", FALSE),
       F("entity_crn", "plain", "", FALSE),
       F("resource_instance_id", "plain", "", FALSE),
       F("resource_group_id", "plain", "", FALSE),
       F("account_id", "plain", "", FALSE),
       F("policy_id", "plain", "", FALSE),
       F("state", "plain", "", FALSE),
       F("target_time", "plain", "", FALSE),
       F("custom_properties", "plain", "", FALSE),
       F("created_at", "datetime", "", FALSE),
       F("created_by", "plain", "", FALSE),
       F("updated_at", "datetime", "", FALSE),
       F("updated_by", "plain", "", FALSE) >>

ReclamationsList_fields ==
    << F("resources", "list", "Reclamation", FALSE) >>

ResourceAlias_fields ==
    << F("id", "plain", "", FALSE),
       F("guid", "plain", "", FALSE),
       F("crn", "plain", "", FALSE),
       F("url", "plain", "", FALSE),
       F("name", "plain", "", FALSE),
       F("account_id", "plain", "", FALSE),
       F("resource_group_id", "plain", "", FALSE),
       F("resource_group_crn", "plain", "", FALSE),
       F("target_crn", "plain", "", FALSE),
       F("state", "plain", "", FALSE),
       F("resource_instance_id", "plain", "", FALSE),
       F("region_instance_id", "plain", "", FALSE),
       F("resource_instance_url", "plain", "", FALSE),
       F("resource_bindings_url", "plain", "", FALSE),
       F("resource_keys_url", "plain", "", FALSE),
       F("created_at", "datetime", "", FALSE),
       F("updated_at", "datetime", "", FALSE),
       F("deleted_at", "datetime", "", FALSE) >>

ResourceAliasesList_fields ==
    << F("next_url", "plain", "", TRUE),
       F("resources", "list", "ResourceAlias", TRUE),
       F("rows_count", "plain", "", TRUE) >>

ResourceBinding_fields ==
    << F("id", "plain", "", FALSE),
       F("guid", "plain", "", FALSE),
       F("crn", "plain", "", FALSE),
       F("url", "plain", "", FALSE),
       F("name", "plain", "", FALSE),
       F("account_id", "plain", "", FALSE),
       F("resource_group_id", "plain", "", FALSE),
       F("source_crn", "plain", "", FALSE),
       F("target_crn", "plain", "", FALSE),
       F("region_binding_id", "plain", "", FALSE),
       F("state", "plain", "", FALSE),
       F("credentials", "model", "Credentials", FALSE),
       F("iam_compatible", "plain", "", FALSE),
       F("resource_alias_url", "plain", "", FALSE),
       F("created_at", "datetime", "", FALSE),
       F("updated_at", "datetime", "", FALSE),
       F("deleted_at", "datetime", "", FALSE) >>

ResourceBindingPostParameters_fields ==
    << F("serviceid_crn", "plain", "", FALSE) >>

ResourceBindingsList_fields ==
    << F("next_url", "plain", "", TRUE),
       F("resources", "list", "ResourceBinding", TRUE),
       F("rows_count", "plain", "", TRUE) >>

ResourceInstance_fields ==
    << F("id", "plain", "", FALSE),
       F("guid", "plain", "", FALSE),
       F("crn", "plain", "", FALSE),
       F("url", "plain", "", FALSE),
       F("name", "plain", "", FALSE),
       F("account_id", "plain", "", FALSE),
       F("resource_group_id", "plain", "", FALSE),
       F("resource_group_crn", "plain", "", FALSE),
       F("resource_id", "plain", "", FALSE),
       F("resource_plan_id", "plain", "", FALSE),
       F("target_crn", "plain", "", FALSE),
       F("state", "plain", "", FALSE),
       F("type", "plain", "", FALSE),
       F("sub_type", "plain", "", FALSE),
       F("allow_cleanup", "plain", "", FALSE),
       F("locked", "plain", "", FALSE),
       F("last_operation", "plain", "", FALSE),
       F("dashboard_url", "plain", "", FALSE),
       F("plan_history", "list", "PlanHistoryItem", FALSE),
       F("resource_aliases_url", "plain", "", FALSE),
       F("resource_bindings_url", "plain", "", FALSE),
       F("resource_keys_url", "plain", "", FALSE),
       F("created_at", "datetime", "", FALSE),
       F("updated_at", "datetime", "", FALSE),
       F("deleted_at", "datetime", "", FALSE) >>

\* rows_count is handled before next_url and resources
ResourceInstancesList_fields_count_first ==
    << F("rows_count", "plain", "", TRUE),
       F("next_url", "plain", "", TRUE),
       F("resources", "list", "ResourceInstance", TRUE) >>

ResourceInstancesList_fields ==
    << F("next_url", "plain", "", TRUE),
       F("resources", "list", "ResourceInstance", TRUE),
       F("rows_count", "plain", "", TRUE) >>

ResourceKey_fields ==
    << F("id", "plain", "", FALSE),
       F("guid", "plain", "", FALSE),
       F("crn", "plain", "", FALSE),
       F("url", "plain", "", FALSE),
       F("name", "plain", "", FALSE),
       F("account_id", "plain", "", FALSE),
       F("resource_group_id", "plain", "", FALSE),
       F("source_crn", "plain", "", FALSE),
       F("state", "plain", "", FALSE),
       F("credentials", "model", "Credentials", FALSE),
       F("iam_compatible", "plain", "", FALSE),
       F("resource_instance_url", "plain", "", FALSE),
       F("created_at", "datetime", "", FALSE),
       F("updated_at", "datetime", "", FALSE),
       F("deleted_at", "datetime", "", FALSE) >>

ResourceKeyPostParameters_fields ==
    << F("serviceid_crn", "plain", "", FALSE) >>

\* the wrapper without its rows_count
ResourceKeysList_fields_no_count ==
    << F("next_url", "plain", "", TRUE),
       F("resources", "list", "ResourceKey", TRUE) >>

ResourceKeysList_fields ==
    << F("next_url", "plain", "", TRUE),
       F("resources", "list", "ResourceKey", TRUE),
       F("rows_count", "plain", "", TRUE) >>

Classes ==
    { "Credentials", "PlanHistoryItem", "Reclamation", "ReclamationsList",
      "ResourceAlias", "ResourceAliasesList", "ResourceBinding",
      "ResourceBindingPostParameters", "ResourceBindingsList",
      "ResourceInstance", "ResourceInstancesList", "ResourceKey",
      "ResourceKeyPostParameters", "ResourceKeysList" }

Schema(cls) ==
    CASE cls = "Credentials" -> Credentials_fields
      [] cls = "PlanHistoryItem" -> PlanHistoryItem_fields
      [] cls = "Reclamation" -> Reclamation_fields
      [] cls = "ReclamationsList" -> ReclamationsList_fields
      [] cls = "ResourceAlias" -> ResourceAlias_fields
      [] cls = "ResourceAliasesList" -> ResourceAliasesList_fields
      [] cls = "ResourceBinding" -> ResourceBinding_fields
      [] cls = "ResourceBindingPostParameters" -> ResourceBindingPostParameters_fields
      [] cls = "ResourceBindingsList" -> ResourceBindingsList_fields
      [] cls = "ResourceInstance" -> ResourceInstance_fields
      [] cls = "ResourceInstancesList" -> ResourceInstancesList_fields
      [] cls = "ResourceKey" -> ResourceKey_fields
      [] cls = "ResourceKeyPostParameters" -> ResourceKeyPostParameters_fields
      [] cls = "ResourceKeysList" -> ResourceKeysList_fields

Names(cls) == { Schema(cls)[i].name : i \in 1..Len(Schema(cls)) }

FieldOf(cls, name) ==
    Schema(cls)[CHOOSE i \in 1..Len(Schema(cls)) : Schema(cls)[i].name = name]

\* Credentials._properties: the one class that carries additional properties
Credentials_properties ==
    {"apikey", "iam_apikey_description", "iam_apikey_name", "iam_role_crn",
     "iam_serviceid_crn"}

\* no class passes undeclared keys through
HasExtras_never(cls) == FALSE

\* the classes whose __init__ takes **kwargs and whose from_dict / to_dict
\* pass the undeclared keys through
HasExtras(cls) == cls = "Credentials"

(***************************************************************************)
(* __init__: every declared attribute is set (None when not given), then   *)
(* each additional keyword is set with setattr.  A keyword named "self"    *)
(* collides with the bound first parameter of __init__.                    *)
(***************************************************************************)
\* only the attributes that are given are set
init_given_only(cls, args) ==
    IF "self" \in DOMAIN args
    THEN Raise("TypeError", "init", "self", cls)
    ELSE Ok(Obj(cls, args))

init(cls, args) ==
    IF "self" \in DOMAIN args
    THEN Raise("TypeError", "init", "self", cls)
    ELSE Ok(Obj(cls, [n \in Names(cls) \cup DOMAIN args |->
                        IF n \in DOMAIN args THEN args[n] ELSE None]))

(***************************************************************************)
(* from_dict                                                               *)
(***************************************************************************)
RECURSIVE from_dict(_, _)

\* the entries that cannot be decoded are left out
from_dict_each_skipping(ref, s) ==
    LET good == SelectSeq(s, LAMBDA e : e.k = "map" /\ from_dict(ref, e.v).ok)
    IN  Ok(List([i \in 1..Len(good) |-> from_dict(ref, good[i].v).val]))

\* [X.from_dict(x) for x in value]: the first element that raises ends it
from_dict_each(ref, s) ==
    LET rs  == [i \in 1..Len(s) |->
                  IF s[i].k = "map" THEN from_dict(ref, s[i].v)
                  ELSE Raise("TypeError", "element", "", ref)]
        bad == {i \in 1..Len(s) : ~rs[i].ok}
    IN  IF bad = {} THEN Ok(List([i \in 1..Len(s) |-> rs[i].val]))
        ELSE rs[Min(bad)]

\* a timestamp is stored as the string it came as
from_dict_value_unparsed(fld, x) ==
    CASE fld.kind = "plain"    -> Ok(x)
      [] fld.kind = "datetime" -> Ok(x)
      [] fld.kind = "model"    ->
            IF x.k = "map" THEN from_dict(fld.ref, x.v)
            ELSE Raise("TypeError", "model", fld.name, fld.ref)
      [] fld.kind = "list"     ->
            IF x.k = "seq" THEN from_dict_each(fld.ref, x.v)
            ELSE Raise("TypeError", "list", fld.name, fld.ref)

\* the right-hand side of  args[name] = ...  for one declared property
from_dict_value(fld, x) ==
    CASE fld.kind = "plain"    -> Ok(x)
      [] fld.kind = "datetime" -> string_to_datetime(x)
      [] fld.kind = "model"    ->
            IF x.k = "map" THEN from_dict(fld.ref, x.v)
            ELSE Raise("TypeError", "model", fld.name, fld.ref)
      [] fld.kind = "list"     ->
            IF x.k = "seq" THEN from_dict_each(fld.ref, x.v)
            ELSE Raise("TypeError", "list", fld.name, fld.ref)

\* if _dict.get(name):  -- a key that holds '', 0 or [] counts as not present
present_truthy(d, name) ==
    /\ name \in DOMAIN d
    /\ ~(d[name].k = "tok" /\ ~d[name].truthy)
    /\ ~(d[name].k = "seq" /\ Len(d[name].v) = 0)

\* if name in _dict:
present(d, name) == name \in DOMAIN d

\* a required property that is not present is left unset like an optional one
not_present_lenient(fld, cls) == Ok(None)

\* the else branch of  if name in _dict:  -- a required property raises
\* ValueError('Required property <name> not present in <cls> JSON'), an
\* optional one is left to the default of the constructor
not_present(fld, cls) ==
    IF fld.required THEN Raise("ValueError", "required", fld.name, cls) ELSE Ok(None)

from_dict(cls, d) ==
    LET fs  == Schema(cls)
        res == [i \in 1..Len(fs) |->
                  IF present(d, fs[i].name)
                  THEN from_dict_value(fs[i], d[fs[i].name])
                  ELSE not_present(fs[i], cls)]
        bad == {i \in 1..Len(fs) : ~res[i].ok}
        idx(n) == CHOOSE i \in 1..Len(fs) : fs[i].name = n
        extra == IF HasExtras(cls) THEN DOMAIN d \ Credentials_properties ELSE {}
        args == [n \in (Names(cls) \cap DOMAIN d) \cup extra |->
                   IF n \in extra THEN d[n] ELSE res[idx(n)].val]
    IN  IF bad # {} THEN res[Min(bad)] ELSE init(cls, args)

(***************************************************************************)
(* to_dict                                                                 *)
(***************************************************************************)
RECURSIVE to_dict(_)

\* obj.to_dict(): an instance attribute named to_dict, set by setattr in
\* __init__, is found before the method of the class
call_to_dict(obj) ==
    IF "to_dict" \in DOMAIN obj.attrs
    THEN Raise("TypeError", "not callable", "to_dict", obj.cls)
    ELSE to_dict(obj)

\* the entries are emitted last to first
to_dict_each_reversed(s) ==
    LET rs  == [i \in 1..Len(s) |->
                  IF s[i].k = "obj" THEN call_to_dict(s[i])
                  ELSE Raise("AttributeError", "to_dict", "", "")]
        bad == {i \in 1..Len(s) : ~rs[i].ok}
    IN  IF bad = {} THEN Ok(List([i \in 1..Len(s) |-> Map(rs[Len(s) + 1 - i].val)]))
        ELSE rs[Min(bad)]

\* [x.to_dict() for x in value]
to_dict_each(s) ==
    LET rs  == [i \in 1..Len(s) |->
                  IF s[i].k = "obj" THEN call_to_dict(s[i])
                  ELSE Raise("AttributeError", "to_dict", "", "")]
        bad == {i \in 1..Len(s) : ~rs[i].ok}
    IN  IF bad = {} THEN Ok(List([i \in 1..Len(s) |-> Map(rs[i].val)]))
        ELSE rs[Min(bad)]

\* a timestamp is emitted as the datetime it is held as
to_dict_value_unformatted(fld, a) ==
    CASE fld.kind = "plain"    -> Ok(a)
      [] fld.kind = "datetime" -> Ok(a)
      [] fld.kind = "model"    ->
            IF a.k = "obj"
            THEN LET r == call_to_dict(a) IN IF r.ok THEN Ok(Map(r.val)) ELSE r
            ELSE Raise("AttributeError", "to_dict", fld.name, "")
      [] fld.kind = "list"     ->
            IF a.k = "seq" THEN to_dict_each(a.v)
            ELSE Raise("TypeError", "not iterable", fld.name, "")

\* the right-hand side of  _dict[name] = ...  for one declared property;
\* a value that is not of the declared type has no isoformat / to_dict
to_dict_value(fld, a) ==
    CASE fld.kind = "plain"    -> Ok(a)
      [] fld.kind = "datetime" ->
            IF a.k = "dt" THEN Ok(datetime_to_string(a))
            ELSE Raise("AttributeError", "isoformat", fld.name, "")
      [] fld.kind = "model"    ->
            IF a.k = "obj"
            THEN LET r == call_to_dict(a) IN IF r.ok THEN Ok(Map(r.val)) ELSE r
            ELSE Raise("AttributeError", "to_dict", fld.name, "")
      [] fld.kind = "list"     ->
            IF a.k = "seq" THEN to_dict_each(a.v)
            ELSE Raise("TypeError", "not iterable", fld.name, "")

\* hasattr(self, name) alone
is_set_hasattr(obj, name) == name \in DOMAIN obj.attrs

\* hasattr(self, name) and self.name is not None
is_set(obj, name) == name \in DOMAIN obj.attrs /\ ~IsNone(obj.attrs[name])

to_dict(obj) ==
    LET fs  == Schema(obj.cls)
        res == [i \in 1..Len(fs) |->
                  IF is_set(obj, fs[i].name)
                  THEN to_dict_value(fs[i], obj.attrs[fs[i].name])
                  ELSE Ok(None)]
        bad == {i \in 1..Len(fs) : ~res[i].ok}
        idx(n) == CHOOSE i \in 1..Len(fs) : fs[i].name = n
        declared == {n \in Names(obj.cls) : is_set(obj, n)}
        extra == IF HasExtras(obj.cls)
                 THEN {n \in DOMAIN obj.attrs \ Credentials_properties : is_set(obj, n)}
                 ELSE {}
    IN  IF bad # {} THEN res[Min(bad)]
        ELSE Ok([n \in declared \cup extra |->
                   IF n \in extra THEN obj.attrs[n] ELSE res[idx(n)].val])

(***************************************************************************)
(* __eq__ and __ne__: same class and equal __dict__, the attributes being  *)
(* compared with Python's ==.                                              *)
(***************************************************************************)
\* the store of dict objects that are held by reference
VARIABLE heap

\* the dict that x is: Python compares dicts by their entries
Load(x) == IF x.k = "ref" THEN Map(heap[x.r]) ELSE x

RECURSIVE PyEq(_, _)

PyEq(x, y) ==
    LET a == Load(x)
        b == Load(y)
    IN
    IF a.k # b.k THEN FALSE
    ELSE CASE a.k = "null" -> TRUE
           [] a.k = "tok"  -> a.v = b.v /\ a.i = b.i /\ a.truthy = b.truthy
           [] a.k = "int"  -> a.v = b.v
           [] a.k = "tstr" -> a.t = b.t /\ a.zone = b.zone
           [] a.k = "dt"   -> a.aware = b.aware /\ a.t - a.off = b.t - b.off
           [] a.k = "map"  -> /\ DOMAIN a.v = DOMAIN b.v
                              /\ \A n \in DOMAIN a.v : PyEq(a.v[n], b.v[n])
           [] a.k = "seq"  -> /\ Len(a.v) = Len(b.v)
                              /\ \A i \in 1..Len(a.v) : PyEq(a.v[i], b.v[i])
           [] a.k = "obj"  -> /\ a.cls = b.cls
                              /\ DOMAIN a.attrs = DOMAIN b.attrs
                              /\ \A n \in DOMAIN a.attrs : PyEq(a.attrs[n], b.attrs[n])

\* the __dict__ of the two are compared, whatever the class of other
__eq__any_class(self, other) ==
    /\ other.k = "obj"
    /\ DOMAIN self.attrs = DOMAIN other.attrs
    /\ \A n \in DOMAIN self.attrs : PyEq(self.attrs[n], other.attrs[n])

\* if not isinstance(other, self.__class__): return False
\* return self.__dict__ == other.__dict__
__eq__(self, other) == PyEq(self, other)

__ne__(self, other) == ~__eq__(self, other)


(***************************************************************************)
(* Inputs: the JSON mappings handed to from_dict and the keyword arguments *)
(* handed to the constructors.                                             *)
(***************************************************************************)
\* undeclared keys a mapping may carry: a broker-defined field, and names
\* that the class or its constructor also uses
ExtraKeys == {"broker_url", "_properties", "to_dict", "from_dict", "self"}

\* the values an undeclared key is given: a scalar, null, a nested mapping
ExtraValues(e) == {Tok(e, 0, TRUE), Tok(e, 0, FALSE), None, Map(EmptyDict)}

Restrict(d, S) == [n \in DOMAIN d \cap S |-> d[n]]
Drop(d, n) == Restrict(d, DOMAIN d \ {n})
Override(d, n, x) == [m \in DOMAIN d \cup {n} |-> IF m = n THEN x ELSE d[m]]

Required(cls) == {n \in Names(cls) : FieldOf(cls, n).required}
OfKind(cls, kind) == {n \in Names(cls) : FieldOf(cls, n).kind = kind}

\* a response body of class cls with every declared key present: scalars of
\* the given truthiness, timestamps spelled with the given zone, sequences
\* of n entries; i numbers the entry the body is
RECURSIVE FullWire(_, _, _, _, _)
FullWire(cls, zone, truthy, n, i) ==
    [name \in Names(cls) |->
        LET fld == FieldOf(cls, name) IN
        CASE fld.kind = "plain"    -> Tok(name, i, truthy)
          [] fld.kind = "datetime" -> TStr(i % (MaxHour + 1), zone)
          [] fld.kind = "model"    -> Map(FullWire(fld.ref, zone, truthy, n, i))
          [] fld.kind = "list"     ->
                List([j \in 1..n |-> Map(FullWire(fld.ref, zone, truthy, n, j))])]

BaseWire(cls) == FullWire(cls, "Z", TRUE, 1, 0)

\* bodies of class cls that from_dict cannot decode: a null or malformed
\* timestamp, a null nested model, a null sequence, a sequence holding a
\* null entry or an entry that cannot be decoded, a required key left out
RECURSIVE BadWires(_)
BadValues(fld) ==
    CASE fld.kind = "plain"    -> {}
      [] fld.kind = "datetime" -> {None, Tok(fld.name, 0, TRUE)}
      [] fld.kind = "model"    -> {None} \cup {Map(b) : b \in BadWires(fld.ref)}
      [] fld.kind = "list"     ->
            {None, List(<<None>>)} \cup {List(<<Map(b)>>) : b \in BadWires(fld.ref)}

BadWires(cls) ==
    UNION {{Override(BaseWire(cls), n, x) : x \in BadValues(FieldOf(cls, n))} :
             n \in Names(cls)} \cup
    {Drop(BaseWire(cls), n) : n \in Required(cls)}

\* a sequence of n entries of class ref whose j-th entry is x
SeqWith(ref, n, j, x) ==
    List([m \in 1..n |-> IF m = j THEN x ELSE Map(FullWire(ref, "Z", TRUE, 1, m))])

\* sequences for a list property in which one entry cannot be decoded
BadSeqs(fld) ==
    {SeqWith(fld.ref, n, j, x) :
        n \in 1..MaxLen, j \in 1..MaxLen,
        x \in {None} \cup {Map(b) : b \in BadWires(fld.ref)}}

\* the declared properties of type dict
MappingProperties == {"last_operation", "custom_properties"}

\* the dict objects in the store when a run starts, and the entries a dict
\* has after its holder changed it
Heap0 == [r \in {1} |-> [n \in {"type"} |-> Tok("type", 0, TRUE)]]
Changed == [n \in {"type"} |-> Tok("changed", 0, TRUE)]

WireInputs(cls) ==
    LET base == BaseWire(cls)
        all  == Names(cls)
    IN  \* every declared key present
        {FullWire(cls, z, t, n, 0) : z \in Zones, t \in BOOLEAN, n \in 0..MaxLen}
        \* some declared keys left out
        \cup {Drop(base, n) : n \in all}
        \cup {Restrict(base, {n}) : n \in all}
        \cup {Restrict(base, all \ S) : S \in SUBSET Required(cls)}
        \cup {Restrict(base, S) : S \in SUBSET Required(cls)}
        \cup {Restrict(base, {"id", "name", "state"})}
        \* a declared key present with null
        \cup {Override(base, n, None) : n \in all}
        \cup {Override(Restrict(base, Required(cls)), n, None) : n \in Required(cls)}
        \* an undeclared key
        \cup UNION {{Override(base, e, x) : x \in ExtraValues(e)} : e \in ExtraKeys}
        \* an undeclared key inside a nested mapping (credentials)
        \cup UNION {{Override(base, p[2],
                              Map(Override(BaseWire(FieldOf(cls, p[2]).ref), p[1], x))) :
                        x \in ExtraValues(p[1])} :
                     p \in ExtraKeys \X OfKind(cls, "model")}
        \* a property that holds a JSON object, held by reference
        \cup {Override(base, n, Ref(1)) :
                 n \in (all \cap MappingProperties) \cup
                       (IF HasExtras(cls) THEN {"broker_url"} ELSE {})}
        \* the envelope of a list endpoint, rows_count a number
        \cup {Override(Override(FullWire(cls, "Z", TRUE, n, 0),
                                "next_url", Tok("next_url", 0, TRUE)),
                       "rows_count", Num(c)) :
                 n \in IF "resources" \in all THEN 0..MaxLen ELSE {}, c \in 0..MaxLen}
        \* a value that cannot be decoded, alone or with required keys left out
        \cup {Restrict(b, all \ S) : b \in BadWires(cls), S \in SUBSET Required(cls)}
        \cup UNION {{Restrict(Override(base, n, s), all \ S) :
                        s \in BadSeqs(FieldOf(cls, n)), S \in SUBSET (Required(cls) \ {n})} :
                     n \in OfKind(cls, "list")}

\* the datetime values a constructor is given: naive, utc, and one hour east
Datetimes ==
    {DT(t, a, o) : t \in 0..MaxHour, a \in BOOLEAN, o \in 0..1} \
    {DT(t, FALSE, 1) : t \in 0..MaxHour}

\* keyword arguments for the constructor of cls with a value of the declared
\* type for every declared attribute
RECURSIVE FullArgs(_, _, _, _, _)
FullArgs(cls, dt, truthy, n, i) ==
    [name \in Names(cls) |->
        LET fld == FieldOf(cls, name) IN
        CASE fld.kind = "plain"    -> Tok(name, i, truthy)
          [] fld.kind = "datetime" -> dt
          [] fld.kind = "model"    -> init(fld.ref, FullArgs(fld.ref, dt, truthy, n, i)).val
          [] fld.kind = "list"     ->
                List([j \in 1..n |-> init(fld.ref, FullArgs(fld.ref, dt, truthy, n, j)).val])]

BaseArgs(cls) == FullArgs(cls, DT(0, TRUE, 0), TRUE, 1, 0)

ArgInputs(cls) ==
    LET base == BaseArgs(cls)
        all  == Names(cls)
    IN  {FullArgs(cls, dt, t, n, 0) : dt \in Datetimes, t \in BOOLEAN, n \in 0..MaxLen}
        \* an attribute left out (the default None) or given as None
        \cup {Drop(base, n) : n \in all \ Required(cls)}
        \cup {Override(base, n, None) : n \in all}
        \cup {Restrict(base, Required(cls))}
        \cup {[n \in all |-> None]}
        \* additional keyword arguments, where __init__ takes them
        \cup UNION {{Override(base, e, x) : x \in ExtraValues(e)} :
                     e \in IF HasExtras(cls) THEN ExtraKeys ELSE {}}

(***************************************************************************)
(* The service operations of ResourceControllerV2.  Each is described by   *)
(* its signature, the parameters it checks against None, the parameter it  *)
(* passes through convert_model, whether it sets the Entity-Lock header,   *)
(* the keys of its params or data mapping, and its method and url.         *)
(***************************************************************************)
list_resource_instances ==
    [ op       |-> "list_resource_instances",
      sig      |-> <<"guid", "name", "resource_group_id", "resource_id", "resource_plan_id", "type", "sub_type", "limit", "updated_from", "updated_to">>,
      required |-> <<>>,
      convert  |-> <<>>,
      lock     |-> FALSE,
      params   |-> <<"guid", "name", "resource_group_id", "resource_id", "resource_plan_id", "type", "sub_type", "limit", "updated_from", "updated_to">>,
      has_data |-> FALSE,
      data     |-> <<>>,
      method   |-> "GET",
      url      |-> "/v2/resource_instances",
      path     |-> <<>> ]

create_resource_instance ==
    [ op       |-> "create_resource_instance",
      sig      |-> <<"name", "target", "resource_group", "resource_plan_id", "tags", "allow_cleanup", "parameters", "entity_lock">>,
      required |-> <<"name", "target", "resource_group", "resource_plan_id">>,
      convert  |-> <<>>,
      lock     |-> TRUE,
      params   |-> <<>>,
      has_data |-> TRUE,
      data     |-> <<"name", "target", "resource_group", "resource_plan_id", "tags", "allow_cleanup", "parameters">>,
      method   |-> "POST",
      url      |-> "/v2/resource_instances",
      path     |-> <<>> ]

get_resource_instance ==
    [ op       |-> "get_resource_instance",
      sig      |-> <<"id">>,
      required |-> <<"id">>,
      convert  |-> <<>>,
      lock     |-> FALSE,
      params   |-> <<>>,
      has_data |-> FALSE,
      data     |-> <<>>,
      method   |-> "GET",
      url      |-> "/v2/resource_instances/{0}",
      path     |-> <<"id">> ]

delete_resource_instance ==
    [ op       |-> "delete_resource_instance",
      sig      |-> <<"id">>,
      required |-> <<"id">>,
      convert  |-> <<>>,
      lock     |-> FALSE,
      params   |-> <<>>,
      has_data |-> FALSE,
      data     |-> <<>>,
      method   |-> "DELETE",
      url      |-> "/v2/resource_instances/{0}",
      path     |-> <<"id">> ]

update_resource_instance ==
    [ op       |-> "update_resource_instance",
      sig      |-> <<"id", "name", "parameters", "resource_plan_id", "allow_cleanup">>,
      required |-> <<"id">>,
      convert  |-> <<>>,
      lock     |-> FALSE,
      params   |-> <<>>,
      has_data |-> TRUE,
      data     |-> <<"name", "parameters", "resource_plan_id", "allow_cleanup">>,
      method   |-> "PATCH",
      url      |-> "/v2/resource_instances/{0}",
      path     |-> <<"id">> ]

lock_resource_instance ==
    [ op       |-> "lock_resource_instance",
      sig      |-> <<"id">>,
      required |-> <<"id">>,
      convert  |-> <<>>,
      lock     |-> FALSE,
      params   |-> <<>>,
      has_data |-> FALSE,
      data     |-> <<>>,
      method   |-> "POST",
      url      |-> "/v2/resource_instances/{0}/lock",
      path     |-> <<"id">> ]

\* unlock with the method of lock
unlock_resource_instance_post ==
    [ op       |-> "unlock_resource_instance",
      sig      |-> <<"id">>,
      required |-> <<"id">>,
      convert  |-> <<>>,
      lock     |-> FALSE,
      params   |-> <<>>,
      has_data |-> FALSE,
      data     |-> <<>>,
      method   |-> "POST",
      url      |-> "/v2/resource_instances/{0}/lock",
      path     |-> <<"id">> ]

unlock_resource_instance ==
    [ op       |-> "unlock_resource_instance",
      sig      |-> <<"id">>,
      required |-> <<"id">>,
      convert  |-> <<>>,
      lock     |-> FALSE,
      params   |-> <<>>,
      has_data |-> FALSE,
      data     |-> <<>>,
      method   |-> "DELETE",
      url      |-> "/v2/resource_instances/{0}/lock",
      path     |-> <<"id">> ]

list_resource_keys ==
    [ op       |-> "list_resource_keys",
      sig      |-> <<"guid", "name", "resource_group_id", "resource_id", "limit", "updated_from", "updated_to">>,
      required |-> <<>>,
      convert  |-> <<>>,
      lock     |-> FALSE,
      params   |-> <<"guid", "name", "resource_group_id", "resource_id", "limit", "updated_from", "updated_to">>,
      has_data |-> FALSE,
      data     |-> <<>>,
      method   |-> "GET",
      url      |-> "/v2/resource_keys",
      path     |-> <<>> ]

create_resource_key ==
    [ op       |-> "create_resource_key",
      sig      |-> <<"name", "source", "parameters", "role">>,
      required |-> <<"name", "source">>,
      convert  |-> <<"parameters">>,
      lock     |-> FALSE,
      params   |-> <<>>,
      has_data |-> TRUE,
      data     |-> <<"name", "source", "parameters", "role">>,
      method   |-> "POST",
      url      |-> "/v2/resource_keys",
      path     |-> <<>> ]

get_resource_key ==
    [ op       |-> "get_resource_key",
      sig      |-> <<"id">>,
      required |-> <<"id">>,
      convert  |-> <<>>,
      lock     |-> FALSE,
      params   |-> <<>>,
      has_data |-> FALSE,
      data     |-> <<>>,
      method   |-> "GET",
      url      |-> "/v2/resource_keys/{0}",
      path     |-> <<"id">> ]

delete_resource_key ==
    [ op       |-> "delete_resource_key",
      sig      |-> <<"id">>,
      required |-> <<"id">>,
      convert  |-> <<>>,
      lock     |-> FALSE,
      params   |-> <<>>,
      has_data |-> FALSE,
      data     |-> <<>>,
      method   |-> "DELETE",
      url      |-> "/v2/resource_keys/{0}",
      path     |-> <<"id">> ]

update_resource_key ==
    [ op       |-> "update_resource_key",
      sig      |-> <<"id", "name">>,
      required |-> <<"id", "name">>,
      convert  |-> <<>>,
      lock     |-> FALSE,
      params   |-> <<>>,
      has_data |-> TRUE,
      data     |-> <<"name">>,
      method   |-> "PATCH",
      url      |-> "/v2/resource_keys/{0}",
      path     |-> <<"id">> ]

list_resource_bindings ==
    [ op       |-> "list_resource_bindings",
      sig      |-> <<"guid", "name", "resource_group_id", "resource_id", "region_binding_id", "limit", "updated_from", "updated_to">>,
      required |-> <<>>,
      convert  |-> <<>>,
      lock     |-> FALSE,
      params   |-> <<"guid", "name", "resource_group_id", "resource_id", "region_binding_id", "limit", "updated_from", "updated_to">>,
      has_data |-> FALSE,
      data     |-> <<>>,
      method   |-> "GET",
      url      |-> "/v2/resource_bindings",
      path     |-> <<>> ]

create_resource_binding ==
    [ op       |-> "create_resource_binding",
      sig      |-> <<"source", "target", "name", "parameters", "role">>,
      required |-> <<"source", "target">>,
      convert  |-> <<"parameters">>,
      lock     |-> FALSE,
      params   |-> <<>>,
      has_data |-> TRUE,
      data     |-> <<"source", "target", "name", "parameters", "role">>,
      method   |-> "POST",
      url      |-> "/v2/resource_bindings",
      path     |-> <<>> ]

get_resource_binding ==
    [ op       |-> "get_resource_binding",
      sig      |-> <<"id">>,
      required |-> <<"id">>,
      convert  |-> <<>>,
      lock     |-> FALSE,
      params   |-> <<>>,
      has_data |-> FALSE,
      data     |-> <<>>,
      method   |-> "GET",
      url      |-> "/v2/resource_bindings/{0}",
      path     |-> <<"id">> ]

delete_resource_binding ==
    [ op       |-> "delete_resource_binding",
      sig      |-> <<"id">>,
      required |-> <<"id">>,
      convert  |-> <<>>,
      lock     |-> FALSE,
      params   |-> <<>>,
      has_data |-> FALSE,
      data     |-> <<>>,
      method   |-> "DELETE",
      url      |-> "/v2/resource_bindings/{0}",
      path     |-> <<"id">> ]

update_resource_binding ==
    [ op       |-> "update_resource_binding",
      sig      |-> <<"id", "name">>,
      required |-> <<"id", "name">>,
      convert  |-> <<>>,
      lock     |-> FALSE,
      params   |-> <<>>,
      has_data |-> TRUE,
      data     |-> <<"name">>,
      method   |-> "PATCH",
      url      |-> "/v2/resource_bindings/{0}",
      path     |-> <<"id">> ]

list_resource_aliases ==
    [ op       |-> "list_resource_aliases",
      sig      |-> <<"guid", "name", "resource_instance_id", "region_instance_id", "resource_id", "resource_group_id", "limit", "updated_from", "updated_to">>,
      required |-> <<>>,
      convert  |-> <<>>,
      lock     |-> FALSE,
      params   |-> <<"guid", "name", "resource_instance_id", "region_instance_id", "resource_id", "resource_group_id", "limit", "updated_from", "updated_to">>,
      has_data |-> FALSE,
      data     |-> <<>>,
      method   |-> "GET",
      url      |-> "/v2/resource_aliases",
      path     |-> <<>> ]

create_resource_alias ==
    [ op       |-> "create_resource_alias",
      sig      |-> <<"name", "source", "target">>,
      required |-> <<"name", "source", "target">>,
      convert  |-> <<>>,
      lock     |-> FALSE,
      params   |-> <<>>,
      has_data |-> TRUE,
      data     |-> <<"name", "source", "target">>,
      method   |-> "POST",
      url      |-> "/v2/resource_aliases",
      path     |-> <<>> ]

get_resource_alias ==
    [ op       |-> "get_resource_alias",
      sig      |-> <<"id">>,
      required |-> <<"id">>,
      convert  |-> <<>>,
      lock     |-> FALSE,
      params   |-> <<>>,
      has_data |-> FALSE,
      data     |-> <<>>,
      method   |-> "GET",
      url      |-> "/v2/resource_aliases/{0}",
      path     |-> <<"id">> ]

delete_resource_alias ==
    [ op       |-> "delete_resource_alias",
      sig      |-> <<"id">>,
      required |-> <<"id">>,
      convert  |-> <<>>,
      lock     |-> FALSE,
      params   |-> <<>>,
      has_data |-> FALSE,
      data     |-> <<>>,
      method   |-> "DELETE",
      url      |-> "/v2/resource_aliases/{0}",
      path     |-> <<"id">> ]

update_resource_alias ==
    [ op       |-> "update_resource_alias",
      sig      |-> <<"id", "name">>,
      required |-> <<"id", "name">>,
      convert  |-> <<>>,
      lock     |-> FALSE,
      params   |-> <<>>,
      has_data |-> TRUE,
      data     |-> <<"name">>,
      method   |-> "PATCH",
      url      |-> "/v2/resource_aliases/{0}",
      path     |-> <<"id">> ]

list_reclamations ==
    [ op       |-> "list_reclamations",
      sig      |-> <<"account_id", "resource_instance_id">>,
      required |-> <<>>,
      convert  |-> <<>>,
      lock     |-> FALSE,
      params   |-> <<"account_id", "resource_instance_id">>,
      has_data |-> FALSE,
      data     |-> <<>>,
      method   |-> "GET",
      url      |-> "/v1/reclamations",
      path     |-> <<>> ]

run_reclamation_action ==
    [ op       |-> "run_reclamation_action",
      sig      |-> <<"id", "action_name", "request_by", "comment">>,
      required |-> <<"id", "action_name">>,
      convert  |-> <<>>,
      lock     |-> FALSE,
      params   |-> <<>>,
      has_data |-> TRUE,
      data     |-> <<"request_by", "comment">>,
      method   |-> "POST",
      url      |-> "/v1/reclamations/{0}/actions/{1}",
      path     |-> <<"id", "action_name">> ]

Operations ==
    << list_resource_instances,
       create_resource_instance,
       get_resource_instance,
       delete_resource_instance,
       update_resource_instance,
       lock_resource_instance,
       unlock_resource_instance,
       list_resource_keys,
       create_resource_key,
       get_resource_key,
       delete_resource_key,
       update_resource_key,
       list_resource_bindings,
       create_resource_binding,
       get_resource_binding,
       delete_resource_binding,
       update_resource_binding,
       list_resource_aliases,
       create_resource_alias,
       get_resource_alias,
       delete_resource_alias,
       update_resource_alias,
       list_reclamations,
       run_reclamation_action >>

Range(s) == {s[i] : i \in 1..Len(s)}

(***************************************************************************)
(* Collaborators of the service class.                                     *)
(***************************************************************************)
\* get_sdk_headers(service_name, service_version, operation_id)
get_sdk_headers(operation_id) == [h \in {"User-Agent"} |-> Tok("User-Agent", 0, TRUE)]

\* convert_model(val): a model value is replaced by its to_dict(), a dict is
\* passed on as it is
convert_model(val) ==
    IF val.k = "obj"
    THEN LET r == call_to_dict(val) IN IF r.ok THEN Ok(Map(r.val)) ELSE r
    ELSE Ok(val)

\* BaseService.encode_path_vars: each path variable is percent-encoded
encode_path_vars(o, args) ==
    [i \in 1..Len(o.path) |-> [k |-> "quoted", v |-> args[o.path[i]]]]

\* json.dumps(data): the JSON text of a mapping
json_dumps(data) == [k |-> "json", v |-> data]

\* what prepare_request and send may raise
TransportErrors ==
    { Raise("ApiException", "404", "", ""),
      Raise("ApiException", "500", "", ""),
      Raise("ConnectionError", "", "", "") }

\* what send may return: a page with a next_url, and one without
Responses ==
    { Ok([k |-> "response", status |-> 200, next_url |-> Tok("next_url", 0, TRUE)]),
      Ok([k |-> "response", status |-> 200, next_url |-> None]) }

(***************************************************************************)
(* The body of an operation, up to the call of prepare_request.            *)
(***************************************************************************)
\* not x
is_missing_falsy(x) == IsNone(x) \/ (x.k = "tok" /\ ~x.truthy)

\* x is None
is_missing(x) == IsNone(x)

\* only the first required parameter is checked
validate_first_only(o, args) ==
    IF Len(o.required) > 0 /\ IsNone(args[o.required[1]])
    THEN Raise("ValueError", "must be provided", o.required[1], o.op)
    ELSE Ok(None)

\* the chain of  if <param> is None: raise ValueError('<param> must be provided')
validate(o, args) ==
    LET miss == {i \in 1..Len(o.required) : is_missing(args[o.required[i]])}
    IN  IF miss = {} THEN Ok(None)
        ELSE Raise("ValueError", "must be provided", o.required[Min(miss)], o.op)

\* dict.update
update(d, e) == [n \in DOMAIN d \cup DOMAIN e |-> IF n \in DOMAIN e THEN e[n] ELSE d[n]]

\* headers = {}; headers.update(sdk_headers)  -- no Entity-Lock header
sdk_headers_no_lock(o, args) == update(EmptyDict, get_sdk_headers(o.op))

\* headers = {...}; headers.update(sdk_headers)
sdk_headers(o, args) ==
    update(IF o.lock THEN [h \in {"Entity-Lock"} |-> args["entity_lock"]] ELSE EmptyDict,
           get_sdk_headers(o.op))

\* headers['content-type'] = 'application/json', for the operations with a body
content_type(o, headers) ==
    IF o.has_data
    THEN update(headers, [h \in {"content-type"} |-> Tok("application/json", 0, TRUE)])
    ELSE headers

\* the headers of the operation are merged over the caller's
caller_headers_under(kwargs, headers) ==
    IF "headers" \in DOMAIN kwargs THEN update(kwargs["headers"].v, headers) ELSE headers

\* if 'headers' in kwargs: headers.update(kwargs.get('headers'))
caller_headers(kwargs, headers) ==
    IF "headers" \in DOMAIN kwargs THEN update(headers, kwargs["headers"].v) ELSE headers

\* params without the filters that are None
build_params_set(o, args) == [p \in {q \in Range(o.params) : ~IsNone(args[q])} |-> args[p]]

\* params = {...}: every filter of the operation, set or not
build_params(o, args) == [p \in Range(o.params) |-> args[p]]

\* data = {k: v for (k, v) in data.items() if v}
build_data_truthy(o, vals) ==
    [p \in {q \in Range(o.data) : ~IsNone(vals[q]) /\ ~(vals[q].k = "tok" /\ ~vals[q].truthy)} |->
        vals[p]]

\* data = {k: v for (k, v) in data.items() if v is not None}
build_data(o, vals) == [p \in {q \in Range(o.data) : ~IsNone(vals[q])} |-> vals[p]]

\* parameters is put in the body as it was given
converted_never(o, args) == [p \in DOMAIN args |-> Ok(args[p])]

\* the arguments after  parameters = convert_model(parameters)
converted(o, args) ==
    [p \in DOMAIN args |->
        IF p \in Range(o.convert) /\ ~IsNone(args[p]) THEN convert_model(args[p]) ELSE Ok(args[p])]

\* the request handed to prepare_request
build_request(o, args, kwargs) ==
    LET conv == converted(o, args)
        bad  == {i \in 1..Len(o.convert) : ~conv[o.convert[i]].ok}
        vals == [p \in DOMAIN args |-> conv[p].val]
    IN  IF bad # {} THEN conv[o.convert[Min(bad)]]
        ELSE Ok([ method  |-> o.method,
                  url     |-> o.url,
                  path    |-> encode_path_vars(o, args),
                  headers |-> caller_headers(kwargs, content_type(o, sdk_headers(o, args))),
                  params  |-> IF Len(o.params) > 0 THEN Map(build_params(o, args)) ELSE None,
                  data    |-> IF o.has_data THEN json_dumps(build_data(o, vals)) ELSE None ])

\* request = self.prepare_request(...): a failure leaves the operation
after_prepare(result) == IF result.ok THEN "send" ELSE "raised"

\* a failed send is sent again
after_send_retry(result) == IF result.ok THEN "returned" ELSE "send"

\* response = self.send(request); return response
after_send(result) == IF result.ok THEN "returned" ELSE "raised"

(***************************************************************************)
(* The calls made on the service.                                          *)
(***************************************************************************)
\* the class of the model value an operation takes as parameters
ParametersClass(o) ==
    IF o.op = "create_resource_key" THEN "ResourceKeyPostParameters"
    ELSE "ResourceBindingPostParameters"

\* the argument given for parameter p: a scalar, truthy or falsy ('' for a
\* str, False for a bool, [] for tags); for a model-typed parameter a model
\* value, or an empty dict
ArgValue(o, p, truthy) ==
    IF p \in Range(o.convert)
    THEN IF truthy
         THEN init(ParametersClass(o), [n \in {"serviceid_crn"} |-> Tok("serviceid_crn", 0, TRUE)]).val
         ELSE Map(EmptyDict)
    ELSE Tok(p, 0, truthy)

ArgSets(o) ==
    { [p \in Range(o.sig) |-> IF p \in S THEN ArgValue(o, p, truthy) ELSE None] :
        S \in SUBSET Range(o.sig), truthy \in BOOLEAN }

\* the headers keyword: a dict of the caller's own headers
HeaderSets ==
    { EmptyDict,
      [h \in {"X-Request-Id"} |-> Tok("X-Request-Id", 1, TRUE)],
      [h \in {"content-type"} |-> Tok("content-type", 1, TRUE)],
      [h \in {"User-Agent", "Entity-Lock"} |-> Tok(h, 1, TRUE)] }

KwargSets == {EmptyDict} \cup {[n \in {"headers"} |-> Map(h)] : h \in HeaderSets}

\* every argument pattern without keyword headers, and the two extreme
\* patterns with each headers keyword
Calls(o) ==
    {[op |-> o.op, args |-> a, kwargs |-> EmptyDict] : a \in ArgSets(o)} \cup
    {[op |-> o.op,
      args |-> [p \in Range(o.sig) |->
                  IF all \/ p \in Range(o.required) THEN ArgValue(o, p, TRUE) ELSE None],
      kwargs |-> kw] : all \in BOOLEAN, kw \in KwargSets}

(***************************************************************************)
(* The model layer as a state machine: a mapping is decoded, or a value is *)
(* constructed; the value is encoded; the encoding is decoded again.       *)
(***************************************************************************)
VARIABLES
    mcls,   \* the model class in use
    src,    \* "dict": d0 is a JSON mapping; "value": d0 is constructor kwargs
    d0,     \* the mapping the run starts from
    v1,     \* outcome of from_dict(d0), or of the constructor
    d1,     \* outcome of v1.to_dict()
    v2,     \* outcome of from_dict(d1)
    other,  \* the value v1 is compared with
    cmp,    \* outcome of v1 == other and of v1 != other
    mpc,    \* "start", "decoded", "encoded", "encoded_again", "redecoded",
            \* "compared"
    d2      \* outcome of a second v1.to_dict()

mvars == <<mcls, src, d0, v1, d1, v2, other, cmp, mpc, heap, d2>>

VARIABLES
    pc,       \* "idle", "prepare", "send", "returned", "raised"
    call,     \* the operation called, its arguments and keyword arguments
    req,      \* the request built for prepare_request
    log,      \* the calls made on the transport during this call, in order
    outcome   \* what the call returned or raised

fvars == <<pc, call, req, log, outcome>>

VARIABLES
    th,       \* for each thread that calls the service: where its call is
    cells     \* the dicts of headers that calls in progress are building

cvars == <<th, cells>>

vars == <<mcls, src, d0, v1, d1, v2, other, cmp, mpc, heap, d2,
          pc, call, req, log, outcome, th, cells>>

NoCall == [op |-> "", args |-> EmptyDict, kwargs |-> EmptyDict]

Threads == {1, 2}

\* a thread that is not in a call.  kwargs is the keyword mapping of the
\* call as the operation leaves it; overlapped tells whether the other
\* thread was inside a call when this one handed its request over
NoThread ==
    [pc |-> "idle", call |-> NoCall, kwargs |-> EmptyDict, req |-> Pending,
     outcome |-> Pending, overlapped |-> FALSE]

ConcIdle ==
    /\ th = [t \in Threads |-> NoThread]
    /\ cells = [c \in {0} \cup Threads |-> EmptyDict]

FacadeIdle ==
    /\ pc = "idle"
    /\ call = NoCall
    /\ req = Pending
    /\ log = <<>>
    /\ outcome = Pending

ModelIdle ==
    /\ mcls = "Credentials"
    /\ src = "dict"
    /\ d0 = EmptyDict
    /\ v1 = Pending
    /\ d1 = Pending
    /\ v2 = Pending
    /\ other = None
    /\ cmp = Pending
    /\ heap = Heap0
    /\ d2 = Pending
    /\ mpc = "idle"

ModelInit ==
    /\ FacadeIdle
    /\ ConcIdle
    /\ mcls \in Classes
    /\ src \in {"dict", "value"}
    /\ d0 \in IF src = "dict" THEN WireInputs(mcls) ELSE ArgInputs(mcls)
    /\ v1 = Pending
    /\ d1 = Pending
    /\ v2 = Pending
    /\ other = None
    /\ cmp = Pending
    /\ heap = Heap0
    /\ d2 = Pending
    /\ mpc = "start"

\* the mapping handed to from_dict as from_dict leaves it: from_dict reads
\* it with  in ,  get  and  items , and writes to its own  args  only
from_dict_input_popped(cls, d) == Restrict(d, DOMAIN d \ Names(cls))

from_dict_input(cls, d) == d

\* the value as to_dict leaves it: to_dict reads the attributes with
\* hasattr  and  getattr , and writes to its own  _dict  only
to_dict_self_cleared(x) == Obj(x.cls, [n \in DOMAIN x.attrs |-> None])

to_dict_self(x) == x

\* cls.from_dict(d0)
Decode ==
    /\ mpc = "start"
    /\ src = "dict"
    /\ v1' = from_dict(mcls, d0)
    /\ d0' = from_dict_input(mcls, d0)
    /\ mpc' = "decoded"
    /\ UNCHANGED <<mcls, src, d1, v2, other, cmp, heap, d2>>
    /\ UNCHANGED <<fvars, cvars>>

\* cls(**d0)
Construct ==
    /\ mpc = "start"
    /\ src = "value"
    /\ v1' = init(mcls, d0)
    /\ mpc' = "decoded"
    /\ UNCHANGED <<mcls, src, d0, d1, v2, other, cmp, heap, d2>>
    /\ UNCHANGED <<fvars, cvars>>

\* value.to_dict()
Encode ==
    /\ mpc = "decoded"
    /\ v1.ok
    /\ d1' = call_to_dict(v1.val)
    /\ v1' = Ok(to_dict_self(v1.val))
    /\ mpc' = "encoded"
    /\ UNCHANGED <<mcls, src, d0, v2, other, cmp, heap, d2>>
    /\ UNCHANGED <<fvars, cvars>>

\* value.to_dict() a second time
EncodeAgain ==
    /\ mpc = "encoded"
    /\ d2' = call_to_dict(v1.val)
    /\ v1' = Ok(to_dict_self(v1.val))
    /\ mpc' = "encoded_again"
    /\ UNCHANGED <<mcls, src, d0, d1, v2, other, cmp, heap>>
    /\ UNCHANGED <<fvars, cvars>>

\* cls.from_dict(value.to_dict())
Redecode ==
    /\ mpc = "encoded"
    /\ d1.ok
    /\ v2' = from_dict(mcls, d1.val)
    /\ d1' = Ok(from_dict_input(mcls, d1.val))
    /\ mpc' = "redecoded"
    /\ UNCHANGED <<mcls, src, d0, v1, other, cmp, heap, d2>>
    /\ UNCHANGED <<fvars, cvars>>

\* the classes that declare the same properties as cls
SameShape(cls) == {c \in Classes \ {cls} : Names(c) = Names(cls)}

\* the same instant read on a clock one hour east
Shift(x) == IF x.k = "dt" /\ x.aware /\ x.off = 0 THEN DT(x.t + 1, TRUE, 1) ELSE x

\* the values a value v is compared with: v itself; v with its timestamps
\* given in another zone; v with one attribute changed, unset, or removed;
\* v with one more attribute; a value of another class with the attributes
\* of v; a dict with the attributes of v; None
Others(v) ==
    LET fs == Schema(v.cls)
        ns == {fs[1].name, fs[Len(fs)].name} \cup (DOMAIN v.attrs \ Names(v.cls))
    IN  {v, Map(v.attrs), None}
        \cup {Obj(v.cls, [n \in DOMAIN v.attrs |-> Shift(v.attrs[n])])}
        \cup {Obj(v.cls, Override(v.attrs, n, Tok("other", 0, TRUE))) : n \in ns}
        \cup {Obj(v.cls, Override(v.attrs, n, None)) : n \in ns}
        \cup {Obj(v.cls, Drop(v.attrs, n)) : n \in ns}
        \cup {Obj(v.cls, Override(v.attrs, "other", Tok("other", 0, TRUE)))}
        \cup {Obj(c, v.attrs) : c \in SameShape(v.cls)}

\* value == other  and  value != other
Compare ==
    /\ mpc = "decoded"
    /\ v1.ok
    /\ \E b \in Others(v1.val) :
          /\ other' = b
          /\ cmp' = Ok([eq |-> __eq__(v1.val, b), ne |-> __ne__(v1.val, b)])
    /\ mpc' = "compared"
    /\ UNCHANGED <<mcls, src, d0, v1, d1, v2, heap, d2>>
    /\ UNCHANGED <<fvars, cvars>>

\* the caller changes a dict nested in the mapping it handed to from_dict
MutateInput ==
    /\ mpc = "decoded"
    /\ src = "dict"
    /\ \E n \in DOMAIN d0 :
          /\ d0[n].k = "ref"
          /\ heap[d0[n].r] # Changed
          /\ heap' = [heap EXCEPT ![d0[n].r] = Changed]
    /\ UNCHANGED <<mcls, src, d0, v1, d1, v2, other, cmp, mpc, d2>>
    /\ UNCHANGED <<fvars, cvars>>

\* the caller changes a dict nested in the mapping that to_dict returned
MutateOutput ==
    /\ mpc = "encoded"
    /\ d1.ok
    /\ \E n \in DOMAIN d1.val :
          /\ d1.val[n].k = "ref"
          /\ heap[d1.val[n].r] # Changed
          /\ heap' = [heap EXCEPT ![d1.val[n].r] = Changed]
    /\ UNCHANGED <<mcls, src, d0, v1, d1, v2, other, cmp, mpc, d2>>
    /\ UNCHANGED <<fvars, cvars>>

ModelNext ==
    \/ Decode \/ Construct \/ Encode \/ EncodeAgain \/ Redecode \/ Compare
    \/ MutateInput \/ MutateOutput

ModelSpec == ModelInit /\ [][ModelNext]_vars

(***************************************************************************)
(* The service as a state machine: an operation is called, validates its   *)
(* arguments and builds the request, hands it to prepare_request, hands    *)
(* the prepared request to send, and returns or raises.                    *)
(***************************************************************************)
\* the body of the operation on call c: v is the outcome of its checks of
\* the required parameters, r the request it builds
Body(c, v, r) ==
    /\ call' = c
    /\ log' = <<>>
    /\ IF ~v.ok THEN /\ pc' = "raised"
                     /\ outcome' = v
                     /\ req' = Pending
       ELSE IF ~r.ok THEN /\ pc' = "raised"
                          /\ outcome' = r
                          /\ req' = Pending
       ELSE /\ pc' = "prepare"
            /\ outcome' = Pending
            /\ req' = r

\* the operation runs up to its call of prepare_request, or raises
Invoke(i) ==
    /\ pc = "idle"
    /\ \E c \in Calls(Operations[i]) :
          Body(c, validate(Operations[i], c.args),
                  build_request(Operations[i], c.args, c.kwargs))
    /\ UNCHANGED <<mvars, cvars>>

\* self.prepare_request(method, url, headers, params, data)
PrepareRequest ==
    /\ pc = "prepare"
    /\ \E result \in {Ok(None)} \cup TransportErrors :
          /\ log' = Append(log, [fn |-> "prepare_request", result |-> result])
          /\ pc' = after_prepare(result)
          /\ outcome' = IF result.ok THEN outcome ELSE result
    /\ UNCHANGED <<call, req>>
    /\ UNCHANGED <<mvars, cvars>>

\* self.send(request)
Send ==
    /\ pc = "send"
    /\ \E result \in Responses \cup TransportErrors :
          /\ log' = Append(log, [fn |-> "send", result |-> result])
          /\ pc' = after_send(result)
          /\ outcome' = result
    /\ UNCHANGED <<call, req>>
    /\ UNCHANGED <<mvars, cvars>>

\* the call is over; the service object keeps nothing of it
Return ==
    /\ pc \in {"returned", "raised"}
    /\ pc' = "idle"
    /\ call' = NoCall
    /\ req' = Pending
    /\ log' = <<>>
    /\ outcome' = Pending
    /\ UNCHANGED <<mvars, cvars>>

Init == FacadeIdle /\ ModelIdle /\ ConcIdle

Next ==
    \/ \E i \in 1..Len(Operations) : Invoke(i)
    \/ PrepareRequest
    \/ Send
    \/ Return

Spec == Init /\ [][Next]_vars

(***************************************************************************)
(* Two threads call operations on one service object.  An operation runs   *)
(* statement by statement, and the statements of the two calls interleave. *)
(***************************************************************************)

\* the operation of a given name
OpNamed(n) == Operations[CHOOSE i \in 1..Len(Operations) : Operations[i].op = n]

\* the headers keywords of the concurrent calls
ConcKwargs ==
    { EmptyDict,
      [n \in {"headers"} |-> Map([h \in {"X-Request-Id"} |-> Tok("X-Request-Id", 1, TRUE)])],
      [n \in {"headers"} |-> Map([h \in {"User-Agent", "Entity-Lock"} |-> Tok(h, 2, TRUE)])] }

\* the concurrent calls: an operation with a body and a lock header and one
\* with filters, each with every argument given or with none
ConcCalls ==
    { [op |-> o.op,
       args |-> [p \in Range(o.sig) |-> IF given THEN ArgValue(o, p, TRUE) ELSE None],
       kwargs |-> kw] :
         o \in {create_resource_instance, list_resource_instances},
         given \in BOOLEAN, kw \in ConcKwargs }

\* headers is kept in an attribute of the service object
headers_cell_shared(t) == 0

\* headers = {...}: headers is a local variable of the call
headers_cell(t) == t

\* kwargs.get('headers').update(headers): the caller's dict takes the merge
kwargs_after_update_merged(kwargs, headers) ==
    IF "headers" \in DOMAIN kwargs THEN [kwargs EXCEPT !["headers"] = Map(headers)] ELSE kwargs

\* headers.update(kwargs.get('headers')): the caller's dict is only read
kwargs_after_update(kwargs, headers) == kwargs

\* thread t is inside a call
Running(t) == th[t].pc \in {"data", "merge", "prepare", "send"}

\* the first statements of the operation on call c: v is the outcome of the
\* checks of the required parameters, r the request the call is to build
Begin(t, c, v, r) ==
    IF ~v.ok \/ ~r.ok
    THEN /\ th' = [th EXCEPT ![t] = [NoThread EXCEPT !.pc = "raised", !.call = c,
                                      !.kwargs = c.kwargs,
                                      !.outcome = IF ~v.ok THEN v ELSE r]]
         /\ UNCHANGED cells
    ELSE /\ th' = [th EXCEPT ![t] = [NoThread EXCEPT !.pc = "data", !.call = c,
                                      !.kwargs = c.kwargs]]
         /\ cells' = [cells EXCEPT ![headers_cell(t)] = sdk_headers(OpNamed(c.op), c.args)]

\* the checks;  headers = {...}; headers.update(sdk_headers)
CallOperation(t) ==
    /\ th[t].pc = "idle"
    /\ \E c \in ConcCalls :
          Begin(t, c, validate(OpNamed(c.op), c.args),
                      build_request(OpNamed(c.op), c.args, c.kwargs))
    /\ UNCHANGED <<mvars, fvars>>

\* data = {...}; data = json.dumps(data); headers['content-type'] = ...
SetContentType(t) ==
    /\ th[t].pc = "data"
    /\ cells' = [cells EXCEPT ![headers_cell(t)] =
                    content_type(OpNamed(th[t].call.op), cells[headers_cell(t)])]
    /\ th' = [th EXCEPT ![t].pc = "merge"]
    /\ UNCHANGED <<mvars, fvars>>

\* if 'headers' in kwargs: headers.update(kwargs.get('headers'))
MergeHeaders(t) ==
    /\ th[t].pc = "merge"
    /\ cells' = [cells EXCEPT ![headers_cell(t)] =
                    caller_headers(th[t].kwargs, cells[headers_cell(t)])]
    /\ th' = [th EXCEPT ![t].pc = "prepare",
                        ![t].kwargs = kwargs_after_update(th[t].kwargs, cells[headers_cell(t)])]
    /\ UNCHANGED <<mvars, fvars>>

\* request = self.prepare_request(method, url, headers=headers, ...)
Prepare(t) ==
    /\ th[t].pc = "prepare"
    /\ \E result \in {Ok(None)} \cup TransportErrors :
          th' = [th EXCEPT
                   ![t].req = Ok([build_request(OpNamed(th[t].call.op), th[t].call.args,
                                                th[t].kwargs).val
                                    EXCEPT !.headers = cells[headers_cell(t)]]),
                   ![t].overlapped = \E u \in Threads \ {t} : Running(u),
                   ![t].pc = after_prepare(result),
                   ![t].outcome = IF result.ok THEN Pending ELSE result]
    /\ UNCHANGED cells
    /\ UNCHANGED <<mvars, fvars>>

\* response = self.send(request); return response
SendRequest(t) ==
    /\ th[t].pc = "send"
    /\ \E result \in Responses \cup TransportErrors :
          th' = [th EXCEPT ![t].pc = after_send(result), ![t].outcome = result]
    /\ UNCHANGED cells
    /\ UNCHANGED <<mvars, fvars>>

ConcNext ==
    \E t \in Threads :
        \/ CallOperation(t)
        \/ SetContentType(t)
        \/ MergeHeaders(t)
        \/ Prepare(t)
        \/ SendRequest(t)

ConcSpec == Init /\ [][ConcNext]_vars

(***************************************************************************)
(* Properties of the model layer (ModelSpec).                              *)
(***************************************************************************)
\* every attribute of a value, declared or additional, is set, and so is
\* every attribute of the values nested in it
RECURSIVE AllSet(_)
AllSet(x) ==
    CASE x.k = "null" -> FALSE
      [] x.k = "obj"  -> \A n \in DOMAIN x.attrs : AllSet(x.attrs[n])
      [] x.k = "seq"  -> \A i \in 1..Len(x.v) : AllSet(x.v[i])
      [] OTHER        -> TRUE

\* C1: for every model class and every constructed value v in which no
\* attribute is absent, v.to_dict() returns a mapping and from_dict of that
\* mapping returns a value equal to v.
C1_RoundTrip ==
    (src = "value" /\ mpc \in {"encoded", "redecoded"} /\ AllSet(v1.val)) =>
        /\ d1.ok
        /\ mpc = "redecoded" => (v2.ok /\ __eq__(v2.val, v1.val))

\* the round trip of C1 for the values that carry no attribute named to_dict
C1_RoundTripUnshadowed ==
    (/\ src = "value" /\ mpc \in {"encoded", "redecoded"} /\ AllSet(v1.val)
     /\ "to_dict" \notin DOMAIN v1.val.attrs) =>
        /\ d1.ok
        /\ mpc = "redecoded" => (v2.ok /\ __eq__(v2.val, v1.val))

\* the names an additional property can collide with: the bound first
\* parameter of __init__ and the attributes of the class
ReservedNames == {"self", "to_dict", "_properties"}

UndeclaredKeys == DOMAIN d0 \ Names(mcls)

C3_MissingRequiredAlwaysNamed ==
    (src = "dict" /\ mpc # "start" /\ Required(mcls) \ DOMAIN d0 # {}) =>
        /\ ~v1.ok
        /\ v1.err.exc = "ValueError" /\ v1.err.kind = "required"
        /\ v1.err.cls = mcls
        /\ v1.err.field \in Required(mcls) \ DOMAIN d0

\* C3 amended: from_dict of a mapping that lacks a required field always
\* fails and returns no value; the error is the missing-required-field error
\* naming the class and the first lacking required field in declaration
\* order, unless decoding a property declared before that field fails, and
\* then it is the error of the first such property.
C3_MissingRequiredFails ==
    (src = "dict" /\ mpc # "start" /\ Required(mcls) \ DOMAIN d0 # {}) =>
        LET fs == Schema(mcls)
            m  == Min({i \in 1..Len(fs) : fs[i].required /\ fs[i].name \notin DOMAIN d0})
            earlier == {i \in 1..(m - 1) :
                          /\ fs[i].name \in DOMAIN d0
                          /\ ~from_dict_value(fs[i], d0[fs[i].name]).ok}
        IN  /\ ~v1.ok
            /\ IF earlier = {}
               THEN v1.err = [exc |-> "ValueError", kind |-> "required",
                              field |-> fs[m].name, cls |-> mcls]
               ELSE v1.err = from_dict_value(fs[Min(earlier)], d0[fs[Min(earlier)].name]).err

C3_Witness ==
    /\ mcls = "ResourceInstancesList" /\ src = "dict" /\ mpc = "decoded"
    /\ "rows_count" \notin DOMAIN d0
    /\ ~v1.ok /\ v1.err.kind # "required"

\* C4: the mapping returned by to_dict(v) has a key only for an attribute
\* (declared or additional) that is set on v, and maps no key to null.
C4_NoKeyForUnset ==
    (mpc \in {"encoded", "redecoded"} /\ d1.ok) =>
        \A n \in DOMAIN d1.val :
            /\ ~IsNone(d1.val[n])
            /\ n \in DOMAIN v1.val.attrs
            /\ ~IsNone(v1.val.attrs[n])

C4_Witness ==
    /\ mcls = "Credentials" /\ mpc = "encoded" /\ d1.ok
    /\ IsNone(v1.val.attrs["apikey"])
    /\ "apikey" \notin DOMAIN d1.val
    /\ "iam_role_crn" \in DOMAIN d1.val

\* the undeclared keys of the credentials mapping nested in d0
NestedExtras ==
    IF "credentials" \in DOMAIN d0 /\ d0["credentials"].k = "map"
    THEN DOMAIN d0["credentials"].v \ Credentials_properties
    ELSE {}

\* the credentials mapping of the encoding d1 holds key e with the value it
\* has in the credentials mapping of d0
Survives(e) ==
    /\ d1.ok
    /\ "credentials" \in DOMAIN d1.val
    /\ d1.val["credentials"].k = "map"
    /\ e \in DOMAIN d1.val["credentials"].v
    /\ d1.val["credentials"].v[e] = d0["credentials"].v[e]

\* C11: for ResourceKey and ResourceBinding, every undeclared key inside the
\* credentials mapping survives from_dict followed by to_dict of the
\* enclosing value: decoding and encoding succeed, and the re-encoded
\* credentials mapping holds that key with the same value.
C11_CredentialsExtrasSurvive ==
    (/\ mcls \in {"ResourceKey", "ResourceBinding"} /\ src = "dict"
     /\ mpc \in {"decoded", "encoded", "redecoded"} /\ NestedExtras # {}) =>
        /\ v1.ok
        /\ mpc # "decoded" => \A e \in NestedExtras : Survives(e)

\* the passthrough of C11 for the undeclared keys that hold a value other
\* than null and collide with no name of Credentials or of its constructor
C11_UnreservedExtrasSurvive ==
    (/\ mcls \in {"ResourceKey", "ResourceBinding"} /\ src = "dict"
     /\ mpc \in {"decoded", "encoded", "redecoded"}
     /\ NestedExtras \cap ReservedNames = {}) =>
        \A e \in NestedExtras :
            /\ v1.ok
            /\ (mpc # "decoded" /\ ~IsNone(d0["credentials"].v[e])) => Survives(e)

\* every attribute of a and b, declared or additional, compares equal
AttributesEqual(a, b) ==
    /\ DOMAIN a.attrs = DOMAIN b.attrs
    /\ \A n \in DOMAIN a.attrs : PyEq(a.attrs[n], b.attrs[n])

\* C12: a == b holds exactly when b is a value of the model class of a and
\* every attribute, declared or additional, compares equal; values of
\* different model classes are never equal, even with identical attributes;
\* a != b is the negation of a == b.
C12_EqualityByClassAndAttributes ==
    mpc = "compared" =>
        /\ cmp.val.eq <=> (/\ other.k = "obj"
                           /\ other.cls = v1.val.cls
                           /\ AttributesEqual(v1.val, other))
        /\ (other.k = "obj" /\ other.cls # v1.val.cls) => ~cmp.val.eq
        /\ cmp.val.ne = ~cmp.val.eq

\* a ResourceKeyPostParameters and a ResourceBindingPostParameters with the
\* same serviceid_crn are compared, and are not equal
C12_Witness ==
    /\ mpc = "compared"
    /\ v1.val.cls = "ResourceKeyPostParameters"
    /\ other.k = "obj" /\ other.cls = "ResourceBindingPostParameters"
    /\ other.attrs = v1.val.attrs
    /\ ~IsNone(v1.val.attrs["serviceid_crn"])
    /\ ~cmp.val.eq /\ cmp.val.ne

\* the timestamp fields of d0 that hold a canonical string: the form that
\* datetime_to_string writes, UTC spelled "Z"
Canonical(x) == x.k = "tstr" /\ x.zone = "Z"

CanonicalTimestamps ==
    {n \in OfKind(mcls, "datetime") \cap DOMAIN d0 : Canonical(d0[n])}

Malformed ==
    {i \in 1..Len(Schema(mcls)) :
        /\ Schema(mcls)[i].kind = "datetime"
        /\ Schema(mcls)[i].name \in DOMAIN d0
        /\ d0[Schema(mcls)[i].name].k = "tok"}

DecodeError == [exc |-> "ValueError", kind |-> "timestamp", field |-> "", cls |-> ""]

\* C14 as stated: from_dict of a mapping whose timestamp field holds a
\* malformed string fails with the decode error of the timestamp.
C14_MalformedIsDecodeError ==
    (src = "dict" /\ mpc # "start" /\ Malformed # {}) =>
        (~v1.ok /\ v1.err = DecodeError)

\* C14 amended: from_dict of a mapping whose timestamp field holds a
\* malformed string always fails and returns no value; the error is the
\* decode error of the timestamp, unless a property declared before the
\* field fails first (a required property that is absent, or a value that
\* cannot be decoded), and then it is another error.
C14_MalformedTimestampFails ==
    (src = "dict" /\ mpc # "start" /\ Malformed # {}) =>
        LET fs == Schema(mcls)
            m  == Min(Malformed)
            earlier == {i \in 1..(m - 1) :
                          \/ fs[i].name \notin DOMAIN d0 /\ fs[i].required
                          \/ /\ fs[i].name \in DOMAIN d0
                             /\ fs[i].kind # "plain"
                             /\ d0[fs[i].name].k \notin {"tstr", "map", "seq"}}
        IN  /\ ~v1.ok
            /\ v1.err.kind # "pending"
            /\ earlier = {} => v1.err = DecodeError

C14_Witness ==
    /\ mcls = "ResourceInstance" /\ src = "dict" /\ mpc = "decoded"
    /\ "created_at" \in DOMAIN d0 /\ d0["created_at"].k = "tok"
    /\ ~v1.ok /\ v1.err = DecodeError

\* C15: ResourceInstance.from_dict of a mapping that holds exactly id, name
\* and state returns a value with id, name and state set to the values of
\* the mapping and every other declared attribute None, and to_dict of that
\* value returns exactly the mapping.
C15_IdNameStateScenario ==
    (/\ mcls = "ResourceInstance" /\ src = "dict" /\ mpc # "start"
     /\ DOMAIN d0 = {"id", "name", "state"}) =>
        /\ v1.ok
        /\ DOMAIN v1.val.attrs = Names("ResourceInstance")
        /\ \A n \in Names("ResourceInstance") :
              v1.val.attrs[n] = IF n \in DOMAIN d0 THEN d0[n] ELSE None
        /\ mpc \in {"encoded", "redecoded"} => (d1.ok /\ d1.val = d0)

C15_Witness ==
    /\ mcls = "ResourceInstance" /\ src = "dict" /\ mpc = "encoded"
    /\ DOMAIN d0 = {"id", "name", "state"}
    /\ d1.ok /\ DOMAIN d1.val = {"id", "name", "state"}
    /\ IsNone(v1.val.attrs["created_at"])

\* the list wrappers that carry the pagination fields next_url and rows_count
Paginated ==
    {"ResourceInstancesList", "ResourceAliasesList", "ResourceBindingsList",
     "ResourceKeysList"}

\* x is falsy: '', 0, an empty list, None
Falsy(x) ==
    \/ IsNone(x)
    \/ x.k = "tok" /\ ~x.truthy
    \/ x.k = "seq" /\ Len(x.v) = 0

\* d0 is the envelope of an empty last page: next_url '', resources [],
\* rows_count 0
EmptyEnvelope ==
    /\ DOMAIN d0 = {"next_url", "resources", "rows_count"}
    /\ d0["next_url"].k = "tok" /\ ~d0["next_url"].truthy
    /\ d0["resources"] = List(<<>>)
    /\ d0["rows_count"].k = "tok" /\ ~d0["rows_count"].truthy

\* C16: for each paginated list wrapper, from_dict of the envelope with
\* next_url '', resources [] and rows_count 0 succeeds, and returns a value
\* whose resources is an empty sequence and whose next_url is falsy.
C16_EmptyEnvelopeDecodes ==
    (mcls \in Paginated /\ src = "dict" /\ mpc # "start" /\ EmptyEnvelope) =>
        /\ v1.ok
        /\ v1.val.attrs["resources"] = List(<<>>)
        /\ Falsy(v1.val.attrs["next_url"])
        /\ v1.val.attrs["next_url"] = d0["next_url"]

C16_Witness ==
    /\ mcls = "ResourceBindingsList" /\ src = "dict" /\ mpc = "decoded"
    /\ EmptyEnvelope
    /\ v1.ok /\ v1.val.attrs["resources"] = List(<<>>)

ListWrappers == Paginated \cup {"ReclamationsList"}

EnvelopeKeys == {"next_url", "resources", "rows_count"}

\* d0 is an envelope that holds next_url, resources and rows_count, none of
\* them null
HoldsEnvelope ==
    /\ EnvelopeKeys \subseteq DOMAIN d0
    /\ \A n \in EnvelopeKeys : ~IsNone(d0[n])

\* C17 as stated: for every list wrapper, ReclamationsList included, the
\* value from_dict returns for an envelope holding next_url, resources and
\* rows_count holds all three, and to_dict of that value emits all three.
C17_EveryWrapperHoldsEnvelope ==
    (/\ mcls \in ListWrappers /\ src = "dict" /\ HoldsEnvelope
     /\ mpc \in {"decoded", "encoded", "redecoded"} /\ v1.ok) =>
        /\ \A n \in EnvelopeKeys : n \in DOMAIN v1.val.attrs /\ ~IsNone(v1.val.attrs[n])
        /\ (mpc # "decoded" /\ d1.ok) => EnvelopeKeys \subseteq DOMAIN d1.val

\* C17 amended: for the four paginated wrappers the value from_dict returns
\* for such an envelope holds next_url, resources and rows_count, and every
\* mapping to_dict returns for it has all three keys; ReclamationsList
\* declares resources alone: its value holds resources only, and to_dict
\* emits resources only.
C17_PaginatedWrappersHoldEnvelope ==
    (/\ mcls \in ListWrappers /\ src = "dict" /\ HoldsEnvelope
     /\ mpc \in {"decoded", "encoded", "redecoded"} /\ v1.ok) =>
        IF mcls \in Paginated
        THEN /\ DOMAIN v1.val.attrs = EnvelopeKeys
             /\ v1.val.attrs["next_url"] = d0["next_url"]
             /\ v1.val.attrs["rows_count"] = d0["rows_count"]
             /\ v1.val.attrs["resources"].k = "seq"
             /\ Len(v1.val.attrs["resources"].v) = Len(d0["resources"].v)
             /\ (mpc # "decoded" /\ d1.ok) =>
                    /\ DOMAIN d1.val = EnvelopeKeys
                    /\ d1.val["next_url"] = d0["next_url"]
                    /\ d1.val["rows_count"] = d0["rows_count"]
                    /\ Len(d1.val["resources"].v) = Len(d0["resources"].v)
        ELSE /\ DOMAIN v1.val.attrs = {"resources"}
             /\ v1.val.attrs["resources"].k = "seq"
             /\ (mpc # "decoded" /\ d1.ok) => DOMAIN d1.val = {"resources"}

C17_Witness ==
    /\ mcls = "ReclamationsList" /\ src = "dict" /\ mpc = "encoded"
    /\ HoldsEnvelope
    /\ Len(d0["resources"].v) = 1
    /\ d1.ok /\ DOMAIN d1.val = {"resources"}

\* C18: in every value of a paginated list wrapper that from_dict returns,
\* rows_count equals the number of entries in resources.
C18_RowsCountIsLength ==
    (/\ mcls \in Paginated /\ src = "dict" /\ mpc # "start" /\ v1.ok
     /\ v1.val.attrs["rows_count"].k = "int") =>
        /\ v1.val.attrs["resources"].k = "seq"
        /\ v1.val.attrs["rows_count"].v = Len(v1.val.attrs["resources"].v)

\* the attributes of value x as they read with store h
View(x, h) ==
    [n \in DOMAIN x.attrs |->
        IF x.attrs[n].k = "ref" THEN Map(h[x.attrs[n].r]) ELSE x.attrs[n]]

\* C21: the value from_dict returned shares no dict with the mapping it was
\* decoded from nor with the mapping to_dict returned for it: whatever the
\* caller changes in a dict nested in either, the attributes of the value
\* read as they did when from_dict returned.
C21_NoSharedMutable ==
    (src = "dict" /\ mpc \in {"decoded", "encoded", "redecoded", "compared"} /\ v1.ok) =>
        View(v1.val, heap) = View(v1.val, Heap0)

PartOutcome(fld, x) ==
    CASE fld.kind = "plain"    -> Ok(x)
      [] fld.kind = "datetime" -> string_to_datetime(x)
      [] fld.kind = "model"    ->
            IF x.k = "map" THEN from_dict(fld.ref, x.v)
            ELSE Raise("TypeError", "model", fld.name, fld.ref)
      [] fld.kind = "list"     ->
            IF x.k # "seq" THEN Raise("TypeError", "list", fld.name, fld.ref)
            ELSE LET bad == {i \in 1..Len(x.v) :
                               x.v[i].k # "map" \/ ~from_dict(fld.ref, x.v[i].v).ok}
                 IN  IF bad = {} THEN Ok(x)
                     ELSE IF x.v[Min(bad)].k # "map"
                          THEN Raise("TypeError", "element", "", fld.ref)
                          ELSE from_dict(fld.ref, x.v[Min(bad)].v)

\* the declared properties of cls whose part in mapping d cannot be decoded
FailingParts(cls, d) ==
    {n \in Names(cls) \cap DOMAIN d : ~PartOutcome(FieldOf(cls, n), d[n]).ok}

\* the failure of the i-th declared property of cls on mapping d, if any:
\* its part cannot be decoded, or it is required and absent
FailureAt(cls, d, i) ==
    LET fld == Schema(cls)[i]
    IN  IF fld.name \in DOMAIN d THEN PartOutcome(fld, d[fld.name])
        ELSE IF fld.required THEN Raise("ValueError", "required", fld.name, cls)
        ELSE Ok(None)

\* C24 as stated: when a nested part of the mapping cannot be decoded,
\* from_dict fails with the error of that part, whichever part it is.
C24_EveryPartErrorReported ==
    (src = "dict" /\ mpc # "start") =>
        \A n \in FailingParts(mcls, d0) : v1 = PartOutcome(FieldOf(mcls, n), d0[n])

\* C24: from_dict has no partial success and no fallback value.  When a
\* nested part of the mapping cannot be decoded, from_dict returns no value:
\* it fails with the first failure in declaration order, which is the error
\* of that part unless a property declared before it fails first.
C24_NoPartialDecode ==
    (src = "dict" /\ mpc # "start" /\ FailingParts(mcls, d0) # {}) =>
        /\ ~v1.ok
        /\ v1 = FailureAt(mcls, d0,
                   Min({i \in 1..Len(Schema(mcls)) : ~FailureAt(mcls, d0, i).ok}))

\* an instance whose second plan_history entry lacks its required
\* resource_plan_id was decoded, and the decoding failed with that error
C24_Witness ==
    /\ mcls = "ResourceInstance"
    /\ src = "dict"
    /\ mpc = "decoded"
    /\ "plan_history" \in DOMAIN d0
    /\ d0["plan_history"].k = "seq"
    /\ Len(d0["plan_history"].v) = 2
    /\ v1 = Raise("ValueError", "required", "resource_plan_id", "PlanHistoryItem")

\* the i-th entry of sequence property n of the decoded value is the
\* decoding of the i-th entry of the mapping's sequence, and the two
\* sequences are as long as each other
DecodedInOrder(n) ==
    LET ref == FieldOf(mcls, n).ref
        inp == d0[n].v
        out == v1.val.attrs[n].v
    IN  /\ Len(out) = Len(inp)
        /\ \A i \in 1..Len(inp) : Ok(out[i]) = from_dict(ref, inp[i].v)

\* the same for the mapping that to_dict returned and the value
EncodedInOrder(n) ==
    LET inp == v1.val.attrs[n].v
        out == d1.val[n].v
    IN  /\ Len(out) = Len(inp)
        /\ \A i \in 1..Len(inp) : out[i] = Map(to_dict(inp[i]).val)

\* C25: from_dict and to_dict keep the length and the order of sequences
\* (resources of the list wrappers, plan_history of ResourceInstance): the
\* i-th entry of the output is the decoding, resp. the encoding, of the i-th
\* entry of the input; no entry is dropped, added or moved.
C25_SequencesKeepOrder ==
    /\ (src = "dict" /\ mpc # "start" /\ v1.ok) =>
          \A n \in OfKind(mcls, "list") \cap DOMAIN d0 : DecodedInOrder(n)
    /\ (mpc \in {"encoded", "encoded_again", "redecoded"} /\ d1.ok) =>
          \A n \in OfKind(mcls, "list") :
              is_set(v1.val, n) => (n \in DOMAIN d1.val /\ EncodedInOrder(n))

\* a list of two different instances, each with a plan history of two
\* entries, was decoded and encoded
C25_Witness ==
    /\ mcls = "ResourceInstancesList"
    /\ src = "dict"
    /\ mpc = "encoded"
    /\ d1.ok
    /\ Len(d0["resources"].v) = 2
    /\ d0["resources"].v[1] # d0["resources"].v[2]
    /\ Len(d1.val["resources"].v) = 2
    /\ d1.val["resources"].v[1] # d1.val["resources"].v[2]
    /\ Len(d1.val["resources"].v[2].v["plan_history"].v) = 2

\* the declared optional properties of cls that mapping d holds with null
NullOptionals(cls, d) ==
    {n \in Names(cls) \cap DOMAIN d : IsNone(d[n]) /\ ~FieldOf(cls, n).required}

\* C26: a declared optional property that is present with null is decoded
\* like one that is absent, whatever its kind (plain, timestamp, nested
\* model, sequence of models): from_dict gives what it gives for the mapping
\* without that key, and where it returns a value the property is unset.
C26_NullIsAbsent ==
    (src = "dict" /\ mpc # "start") =>
        \A n \in NullOptionals(mcls, d0) :
            /\ v1 = from_dict(mcls, Drop(d0, n))
            /\ v1.ok => IsNone(v1.val.attrs[n])

\* C27: for the paginated list wrappers and PlanHistoryItem, a value that
\* from_dict returned can be encoded and decoded again: to_dict returns a
\* mapping, from_dict of that mapping returns a value, and the value is equal
\* to the first -- also when the mapping held a required key with null.
C27_DecodedValueRoundTrips ==
    (mcls \in Paginated \cup {"PlanHistoryItem"} /\ src = "dict" /\ mpc # "start" /\ v1.ok) =>
        /\ mpc \in {"encoded", "encoded_again", "redecoded"} => d1.ok
        /\ mpc = "redecoded" => (v2.ok /\ __eq__(v1.val, v2.val))

\* the error for a required key that a mapping of the class in use lacks
MissingError(n) == Raise("ValueError", "required", n, mcls)

\* C28: when an envelope of a paginated list can fail for more than one
\* reason, from_dict reports the first failure in the order next_url,
\* resources, rows_count: a missing next_url before anything else, then a
\* missing resources or a failing entry of resources, and a missing
\* rows_count only when nothing before it failed.
C28_EnvelopeErrorOrder ==
    (mcls \in Paginated /\ src = "dict" /\ mpc # "start") =>
        IF "next_url" \notin DOMAIN d0 THEN v1 = MissingError("next_url")
        ELSE IF "resources" \notin DOMAIN d0 THEN v1 = MissingError("resources")
        ELSE IF "resources" \in FailingParts(mcls, d0)
             THEN v1 = PartOutcome(FieldOf(mcls, "resources"), d0["resources"])
        ELSE IF "rows_count" \notin DOMAIN d0 THEN v1 = MissingError("rows_count")
        ELSE v1.ok

\* an envelope that has next_url, lacks rows_count and holds an entry of
\* resources that cannot be decoded was decoded, and the error is the entry's
C28_Witness ==
    /\ mcls = "ResourceInstancesList"
    /\ src = "dict"
    /\ mpc = "decoded"
    /\ "next_url" \in DOMAIN d0
    /\ "rows_count" \notin DOMAIN d0
    /\ "resources" \in FailingParts(mcls, d0)
    /\ d0["resources"].k = "seq"
    /\ ~v1.ok
    /\ v1 # MissingError("rows_count")

\* C30: Credentials.from_dict returns a value for every mapping, and an
\* undeclared key never takes the place of an operation of the record or of
\* a constructor argument: whatever the key is named (to_dict, from_dict,
\* _properties, self, ...), to_dict of the value returns a mapping, and the
\* mapping holds the key with its value when the value is not null.
C30_CredentialsAnyKeyDecodes ==
    (mcls = "Credentials" /\ src = "dict" /\ mpc # "start") =>
        /\ v1.ok
        /\ mpc \in {"encoded", "encoded_again", "redecoded"} =>
              /\ d1.ok
              /\ \A e \in UndeclaredKeys :
                    ~IsNone(d0[e]) => (e \in DOMAIN d1.val /\ d1.val[e] = d0[e])

(***************************************************************************)
(* Properties of the service operations (Spec).                            *)
(***************************************************************************)
\* the operation of the call in progress
Op == Operations[CHOOSE i \in 1..Len(Operations) : Operations[i].op = call.op]

\* a request was built and handed, or is about to be handed, to prepare_request
Built == pc \in {"prepare", "send", "returned"} \/ (pc = "raised" /\ log # <<>>)

Fns == [i \in 1..Len(log) |-> log[i].fn]

MissingRequired == {i \in 1..Len(Op.required) : IsNone(call.args[Op.required[i]])}

\* C5: a call in which a required parameter is None raises the ValueError
\* that names the absent parameter (the first one in the order of the
\* signature when several are absent), and calls neither prepare_request
\* nor send.
C5_AbsentRequiredParameter ==
    (pc # "idle" /\ MissingRequired # {}) =>
        /\ pc = "raised"
        /\ outcome = Raise("ValueError", "must be provided",
                           Op.required[Min(MissingRequired)], call.op)
        /\ log = <<>>
        /\ req = Pending

C5_Witness ==
    /\ pc = "raised" /\ call.op = "run_reclamation_action"
    /\ ~IsNone(call.args["id"]) /\ IsNone(call.args["action_name"])
    /\ outcome.err.field = "action_name" /\ log = <<>>

OthersGiven ==
    \A p \in {"target", "resource_group", "resource_plan_id"} : ~IsNone(call.args[p])

EmptyName == Tok("name", 0, FALSE)

WriteOps ==
    { "create_resource_instance", "update_resource_instance",
      "create_resource_key", "update_resource_key",
      "create_resource_binding", "update_resource_binding",
      "create_resource_alias", "update_resource_alias",
      "run_reclamation_action" }

\* the JSON form of an argument: a model value is sent as its to_dict()
JsonOf(x) == IF x.k = "obj" THEN Map(to_dict(x).val) ELSE x

\* C7: the body a write operation hands to the transport is the JSON object
\* whose keys are exactly the body parameters that are not None, each with
\* the value given (a model value as its encoding): None is dropped, a
\* falsy value is kept, and with no body parameter set it is {}.
C7_BodyHoldsSetParameters ==
    (Built /\ call.op \in WriteOps) =>
        /\ Op.has_data
        /\ req.val.data.k = "json"
        /\ DOMAIN req.val.data.v = {p \in Range(Op.data) : ~IsNone(call.args[p])}
        /\ \A p \in DOMAIN req.val.data.v : req.val.data.v[p] = JsonOf(call.args[p])

C7_Witness ==
    /\ pc = "send" /\ call.op = "create_resource_instance"
    /\ call.args["allow_cleanup"] = Tok("allow_cleanup", 0, FALSE)
    /\ IsNone(call.args["parameters"])
    /\ "allow_cleanup" \in DOMAIN req.val.data.v
    /\ "parameters" \notin DOMAIN req.val.data.v

ListOps ==
    { "list_resource_instances", "list_resource_keys", "list_resource_bindings",
      "list_resource_aliases", "list_reclamations" }

\* C8 as stated: the params mapping a list operation hands to the transport
\* holds only the filters the caller set.
C8_UnsetFiltersDropped ==
    (Built /\ call.op \in ListOps) =>
        /\ req.val.params.k = "map"
        /\ DOMAIN req.val.params.v = {p \in Range(Op.params) : ~IsNone(call.args[p])}

\* C8 amended: the params mapping a list operation hands to the transport
\* holds every filter of the operation under its name, with the caller's
\* value when set and with None when unset; this layer drops no filter.
C8_EveryFilterHanded ==
    (Built /\ call.op \in ListOps) =>
        /\ req.val.params.k = "map"
        /\ DOMAIN req.val.params.v = Range(Op.params)
        /\ Range(Op.params) = Range(Op.sig)
        /\ \A p \in Range(Op.params) : req.val.params.v[p] = call.args[p]

C8_Witness ==
    /\ pc = "send" /\ call.op = "list_reclamations"
    /\ ~IsNone(call.args["account_id"]) /\ IsNone(call.args["resource_instance_id"])
    /\ IsNone(req.val.params.v["resource_instance_id"])
    /\ req.val.params.v["account_id"] = call.args["account_id"]

\* C9: a call that passes validation calls prepare_request once and then,
\* when that returned, send once; the call returns what send returned; when
\* prepare_request or send raises, the call raises that same error and the
\* transport is not called again.
C9_PrepareOnceThenSendOnce ==
    /\ pc = "prepare" => log = <<>>
    /\ pc = "send" => (Fns = <<"prepare_request">> /\ log[1].result.ok)
    /\ pc = "returned" =>
          /\ Fns = <<"prepare_request", "send">>
          /\ log[1].result.ok /\ log[2].result.ok
          /\ outcome = log[2].result
    /\ (pc = "raised" /\ MissingRequired = {}) =>
          /\ Fns \in {<<"prepare_request">>, <<"prepare_request", "send">>}
          /\ \A i \in 1..(Len(log) - 1) : log[i].result.ok
          /\ log[Len(log)].result \in TransportErrors
          /\ outcome = log[Len(log)].result

C9_Witness ==
    /\ pc = "raised" /\ Fns = <<"prepare_request", "send">>
    /\ outcome = Raise("ApiException", "500", "", "")

Endpoint(o) == <<o.method, o.url>>

\* C10: there are 24 operations, no two with the same method and url
\* template, and every request an operation builds carries the method and
\* the url template of that operation; get / delete / update of an instance
\* are GET / DELETE / PATCH on /v2/resource_instances/{id}, lock / unlock
\* are POST / DELETE on /v2/resource_instances/{id}/lock.
C10_OneEndpointPerOperation ==
    /\ Len(Operations) = 24
    /\ \A i, j \in 1..Len(Operations) :
          i # j => /\ Endpoint(Operations[i]) # Endpoint(Operations[j])
                   /\ Operations[i].op # Operations[j].op
    /\ Built =>
          /\ \A i \in 1..Len(Operations) :
                (<<req.val.method, req.val.url>> = Endpoint(Operations[i]))
                    <=> (Operations[i].op = call.op)
          /\ req.val.path = [i \in 1..Len(Op.path) |->
                               [k |-> "quoted", v |-> call.args[Op.path[i]]]]
          /\ call.op = "get_resource_instance" =>
                <<req.val.method, req.val.url, Op.path>> =
                    <<"GET", "/v2/resource_instances/{0}", <<"id">> >>
          /\ call.op = "delete_resource_instance" =>
                <<req.val.method, req.val.url, Op.path>> =
                    <<"DELETE", "/v2/resource_instances/{0}", <<"id">> >>
          /\ call.op = "update_resource_instance" =>
                <<req.val.method, req.val.url, Op.path>> =
                    <<"PATCH", "/v2/resource_instances/{0}", <<"id">> >>
          /\ call.op = "lock_resource_instance" =>
                <<req.val.method, req.val.url, Op.path>> =
                    <<"POST", "/v2/resource_instances/{0}/lock", <<"id">> >>
          /\ call.op = "unlock_resource_instance" =>
                <<req.val.method, req.val.url, Op.path>> =
                    <<"DELETE", "/v2/resource_instances/{0}/lock", <<"id">> >>

C10_Witness ==
    /\ pc = "send" /\ call.op = "unlock_resource_instance"
    /\ req.val.method = "DELETE" /\ req.val.url = "/v2/resource_instances/{0}/lock"

\* the headers the caller gave with the headers keyword
CallerHeaders ==
    IF "headers" \in DOMAIN call.kwargs THEN call.kwargs["headers"].v ELSE EmptyDict

\* C19 as stated: the request of create_resource_instance has an Entity-Lock
\* header whose value is the entity_lock argument, and no other operation
\* sets an Entity-Lock header: its request has none but the caller's own.
C19_EntityLockFromArgument ==
    Built =>
        IF call.op = "create_resource_instance"
        THEN /\ "Entity-Lock" \in DOMAIN req.val.headers
             /\ req.val.headers["Entity-Lock"] = call.args["entity_lock"]
        ELSE "Entity-Lock" \in DOMAIN req.val.headers =>
                "Entity-Lock" \in DOMAIN CallerHeaders

\* C19 amended: when the caller's headers keyword has no Entity-Lock entry,
\* the request of create_resource_instance has an Entity-Lock header whose
\* value is the entity_lock argument (None when it is not given) and the
\* request of no other operation has one; an Entity-Lock entry of the
\* caller's headers keyword is handed on by every operation, and in
\* create_resource_instance it replaces the one from the argument.
C19_EntityLockUnlessCallerHeader ==
    Built =>
        IF "Entity-Lock" \in DOMAIN CallerHeaders
        THEN /\ "Entity-Lock" \in DOMAIN req.val.headers
             /\ req.val.headers["Entity-Lock"] = CallerHeaders["Entity-Lock"]
        ELSE IF call.op = "create_resource_instance"
             THEN /\ "Entity-Lock" \in DOMAIN req.val.headers
                  /\ req.val.headers["Entity-Lock"] = call.args["entity_lock"]
             ELSE "Entity-Lock" \notin DOMAIN req.val.headers

C19_Witness ==
    /\ pc = "send" /\ call.op = "create_resource_instance"
    /\ call.kwargs = EmptyDict
    /\ call.args["entity_lock"] = Tok("entity_lock", 0, TRUE)
    /\ req.val.headers["Entity-Lock"] = Tok("entity_lock", 0, TRUE)

ConvertOps == {"create_resource_key", "create_resource_binding"}

\* C20: in create_resource_key and create_resource_binding called with a
\* model value for parameters, a call in which a required parameter is None
\* raises that ValueError and builds no request, and otherwise the
\* parameters entry of the request body is the to_dict() of the value.
C20_ParametersEncodedInBody ==
    (pc # "idle" /\ call.op \in ConvertOps /\ call.args["parameters"].k = "obj") =>
        IF MissingRequired # {}
        THEN /\ pc = "raised" /\ outcome.err.exc = "ValueError"
             /\ req = Pending /\ log = <<>>
        ELSE /\ Built
             /\ req.val.data.k = "json"
             /\ "parameters" \in DOMAIN req.val.data.v
             /\ to_dict(call.args["parameters"]).ok
             /\ req.val.data.v["parameters"] = Map(to_dict(call.args["parameters"]).val)

C20_Witness ==
    /\ pc = "send" /\ call.op = "create_resource_binding"
    /\ call.args["parameters"].k = "obj"
    /\ call.args["parameters"].cls = "ResourceBindingPostParameters"
    /\ req.val.data.v["parameters"] =
          Map([n \in {"serviceid_crn"} |-> Tok("serviceid_crn", 0, TRUE)])
(***************************************************************************)
(* Properties of concurrent calls (ConcSpec).                              *)
(***************************************************************************)

C29_CallerHeadersMergedLast ==
    Built =>
        \A h \in DOMAIN CallerHeaders :
            /\ h \in DOMAIN req.val.headers
            /\ req.val.headers[h] = CallerHeaders[h]

\* an operation with a body was called with a content-type of the caller's
\* own, and the request carries the caller's
C29_Witness ==
    /\ pc = "send"
    /\ Op.has_data
    /\ "content-type" \in DOMAIN CallerHeaders
    /\ CallerHeaders["content-type"] # Tok("application/json", 0, TRUE)
    /\ req.val.headers["content-type"] = CallerHeaders["content-type"]

====
